---- MODULE Spec2Model ----
(***************************************************************************)
(* Session state machine of the wallet chat client.                       *)
(*                                                                         *)
(* The repository holds three near-duplicate variants of one React app:    *)
(*   "A"  src/unnamed/part_000 lines 1-742     in-memory AuthStorage,      *)
(*        session = user object, no balances, no session restore           *)
(*   "B"  src/unnamed/part_000 lines 743-2555  localStorage AuthStorage,   *)
(*        session = user object, balances, session restore                 *)
(*   "C"  src/src/walletapl.jsx                localStorage AuthStorage,   *)
(*        session = {user, token}, bearer token, session restore           *)
(* The variable `variant` selects the one that is running.                 *)
(*                                                                         *)
(* Strings that the code inspects (form fields, wallet addresses) are      *)
(* sequences of one-character strings.  A user reference is represented    *)
(* by its username.  JS undefined / a missing property is None.            *)
(***************************************************************************)
EXTENDS Integers, Sequences, FiniteSets, TLC

VARIABLES
    variant,           \* which of the three App components is running
    hasEthereum,       \* typeof window.ethereum !== "undefined"
    step,              \* useState("connect")
    connectedAddress,  \* useState("")
    manualAddress,     \* useState("")
    form,              \* useState({username, password, email, phone, dob})
    session,           \* useState(null)
    partner,           \* useState(null)
    users,             \* useState([])
    msgs,              \* useState([])
    balances,          \* useState(null)
    loadingBalances,   \* useState(false)
    storage,           \* localStorage["secureChatAuth"] / module variable authStorage
    pending,           \* requests in flight, each with what its continuation captured
    fetches,           \* fetchBalances calls in flight, each at its suspension point
    listeners,         \* connectedAddress values captured by the registered wallet listeners
    lastOp,            \* name of the handler that ran last
    notice,            \* text of the alert() the last handler raised, None if none
    calls,             \* window.ethereum requests the last handler made or saw answered
    switched,          \* what switchToBSC() returned in the last handler, if it was called
    answer,            \* what the last handler received from the backend, None if nothing
    held,              \* a direct caller of AuthStorage: the object it passed to setAuth
                       \* last (arg) and what its last getAuth call returned (ret)
    renders            \* the render passes of App since the last handler ran

vars == << variant, hasEthereum, step, connectedAddress, manualAddress, form,
           session, partner, users, msgs, balances, loadingBalances, storage,
           pending, fetches, listeners, lastOp, notice, calls, switched, answer,
           held, renders >>

(***************************************************************************)
(* Bounds                                                                  *)
(***************************************************************************)
MaxInFlight == 1     \* requests and balance fetches under way before a handler starts another
MaxListeners == 1    \* listener pairs registered on the wallet before another connect through it
MaxTokens == 1       \* entries of TOKENS (USDT, USDC) whose balance is looked up
MaxRenders == 3      \* render passes of App followed after one handler

(***************************************************************************)
(* Values                                                                  *)
(***************************************************************************)
None == "none"
Variants == {"A", "B", "C"}
Steps == {"connect", "chooseAuth", "register", "login", "chat"}
\* the account the backend answers register, login and validate with
Accounts == {"u1"}
Tokens == {"t1"}
Signatures == {"s1"}
Times == {"1"}             \* readings of Date.now()

Durable == variant \in {"B", "C"}
TokenBased == variant = "C"
HasBalances == variant \in {"B", "C"}

Rep(c, n) == [i \in 1..n |-> c]
Str0x == <<"0", "x">>
Empty == << >>

Lower == {"a","b","c","d","e","f","g","h","i","j","k","l","m",
          "n","o","p","q","r","s","t","u","v","w","x","y","z"}
Upper == {"A","B","C","D","E","F","G","H","I","J","K","L","M",
          "N","O","P","Q","R","S","T","U","V","W","X","Y","Z"}
Digit == {"0","1","2","3","4","5","6","7","8","9"}
HexDigit == Digit \cup {"a","b","c","d","e","f","A","B","C","D","E","F"}
Space == {" "}
Special == {"@", "$", "!", "%", "*", "?", "&"}

\* the two wallet accounts of the model, and what a user can type as an address
Addr1 == Str0x \o Rep("a", 40)
Addr2 == Str0x \o Rep("b", 40)
Addresses == {Addr1, Addr2}
\* the account the wallet has selected when the page asks for accounts, and
\* the one it reports when the user selects another
WalletAccounts == {Addr1}
OtherAccounts == {Addr2}
ManualInputs == {Empty, <<" ">> \o Addr2 \o <<" ">>, Str0x \o Rep("a", 39)}

(***************************************************************************)
(* String helpers                                                          *)
(***************************************************************************)
RECURSIVE TrimStart(_)
TrimStart(s) == IF s # Empty /\ Head(s) \in Space THEN TrimStart(Tail(s)) ELSE s

RECURSIVE TrimEnd(_)
TrimEnd(s) == IF s # Empty /\ s[Len(s)] \in Space
              THEN TrimEnd(SubSeq(s, 1, Len(s) - 1)) ELSE s

Trim(s) == TrimEnd(TrimStart(s))

AllIn(s, S) == \A i \in 1..Len(s) : s[i] \in S
SomeIn(s, S) == \E i \in 1..Len(s) : s[i] \in S

(***************************************************************************)
(* Validators.  A validator returns its error message, or Null.            *)
(***************************************************************************)
Null == "null"
Undefined == << "undefined" >>     \* the argument when the caller passes undefined
Raised == "TypeError"              \* the call threw instead of returning
Falsy(value) == value = Undefined \/ value = Empty

\* /^[a-zA-Z0-9_]+$/
IsWord(s) == s # Empty /\ AllIn(s, Lower \cup Upper \cup Digit \cup {"_"})

\* /^[^\s@]+@[^\s@]+\.[^\s@]+$/
IsEmail(s) ==
    /\ ~ SomeIn(s, Space)
    /\ Cardinality({i \in 1..Len(s) : s[i] = "@"}) = 1
    /\ \E i \in 2..Len(s) :
          /\ s[i] = "@"
          /\ \E k \in (i + 2)..(Len(s) - 1) : s[k] = "."

\* value.replace(/\D/g, '')
RECURSIVE StripNonDigits(_)
StripNonDigits(s) ==
    IF s = Empty THEN Empty
    ELSE IF Head(s) \in Digit THEN <<Head(s)>> \o StripNonDigits(Tail(s))
    ELSE StripNonDigits(Tail(s))

\* ethers.isAddress: optional 0x prefix and 40 hex digits; an address that
\* mixes letter cases must also carry a valid checksum, which is not modelled:
\* only single-case addresses are accepted here.
IsAddress(s) ==
    LET body == IF Len(s) >= 2 /\ SubSeq(s, 1, 2) = Str0x
                THEN SubSeq(s, 3, Len(s)) ELSE s
    IN  /\ Len(body) = 40
        /\ AllIn(body, HexDigit)
        /\ (AllIn(body, HexDigit \ Upper) \/ AllIn(body, HexDigit \ Lower))

\* /^0x[a-fA-F0-9]{40}$/
IsHexAddress(s) ==
    /\ Len(s) = 42
    /\ SubSeq(s, 1, 2) = Str0x
    /\ AllIn(SubSeq(s, 3, 42), HexDigit)

\* new Date("YYYY-MM-DD") and the calendar arithmetic of validators.dob
Today == [y |-> 2026, m |-> 11, d |-> 1]
DigitVal(c) == CHOOSE n \in 0..9 : ToString(n) = c
Num(s) == IF s = Empty THEN 0
          ELSE LET RECURSIVE N(_)
                   N(t) == IF t = Empty THEN 0
                           ELSE 10 * N(SubSeq(t, 1, Len(t) - 1)) + DigitVal(t[Len(t)])
               IN N(s)
IsDateShape(s) ==
    /\ Len(s) = 10
    /\ s[5] = "-" /\ s[8] = "-"
    /\ AllIn(SubSeq(s, 1, 4) \o SubSeq(s, 6, 7) \o SubSeq(s, 9, 10), Digit)
    /\ Num(SubSeq(s, 6, 7)) \in 1..12
    /\ Num(SubSeq(s, 9, 10)) \in 1..31
ParseDate(s) == IF IsDateShape(s)
                THEN [ok |-> TRUE, y |-> Num(SubSeq(s, 1, 4)),
                      m |-> Num(SubSeq(s, 6, 7)), d |-> Num(SubSeq(s, 9, 10))]
                ELSE [ok |-> FALSE, y |-> 0, m |-> 0, d |-> 0]    \* Invalid Date
Ord(dt) == (dt.y * 12 + dt.m) * 31 + dt.d
\* a > b on Date objects; false whenever one of them is an Invalid Date
DateAfter(a, b) == a.ok /\ b.ok /\ Ord(a) > Ord(b)
DobRange(value) ==
    LET selectedDate == ParseDate(value)
        minAge == [ok |-> TRUE, y |-> Today.y - 13, m |-> Today.m, d |-> Today.d]
        maxAge == [ok |-> TRUE, y |-> Today.y - 120, m |-> Today.m, d |-> Today.d]
    IN  IF DateAfter(selectedDate, minAge) THEN "You must be at least 13 years old"
        ELSE IF DateAfter(maxAge, selectedDate) THEN "Please enter a valid date of birth"
        ELSE Null

validators_username(value) ==
    IF Falsy(value) \/ Len(Trim(value)) = 0 THEN "Username is required"
    ELSE IF Len(Trim(value)) < 3 THEN "Username must be at least 3 characters"
    ELSE IF variant # "A" /\ Len(Trim(value)) > 20
         THEN "Username must be less than 20 characters"
    ELSE IF ~ IsWord(Trim(value))
         THEN "Username can only contain letters, numbers, and underscores"
    ELSE Null

validators_password_upperFirst(value) ==
    IF Falsy(value) THEN "Password is required"
    ELSE IF Len(value) < 8 THEN "Password must be at least 8 characters"
    ELSE IF ~ SomeIn(value, Upper)
         THEN "Password must contain at least one uppercase letter"
    ELSE IF ~ SomeIn(value, Lower)
         THEN "Password must contain at least one lowercase letter"
    ELSE IF ~ SomeIn(value, Digit) THEN "Password must contain at least one number"
    ELSE IF variant # "A" /\ ~ SomeIn(value, Special)
         THEN "Password must contain at least one special character (@$!%*?&)"
    ELSE Null

validators_password(value) ==
    IF Falsy(value) THEN "Password is required"
    ELSE IF Len(value) < 8 THEN "Password must be at least 8 characters"
    ELSE IF ~ SomeIn(value, Lower)
         THEN "Password must contain at least one lowercase letter"
    ELSE IF ~ SomeIn(value, Upper)
         THEN "Password must contain at least one uppercase letter"
    ELSE IF ~ SomeIn(value, Digit) THEN "Password must contain at least one number"
    ELSE IF variant # "A" /\ ~ SomeIn(value, Special)
         THEN "Password must contain at least one special character (@$!%*?&)"
    ELSE Null

validators_email(value) ==
    IF Falsy(value) \/ Len(Trim(value)) = 0 THEN "Email is required"
    ELSE IF ~ IsEmail(Trim(value)) THEN "Please enter a valid email address"
    ELSE Null

\* variant C calls value.trim() on whatever it is given: undefined raises
validators_phone(value) ==
    IF variant = "C" /\ value = Undefined THEN Raised
    ELSE IF variant = "C" /\ Len(Trim(value)) = 0 THEN Null
    ELSE IF variant # "C" /\ (Falsy(value) \/ Len(Trim(value)) = 0)
         THEN "Phone number is required"
    ELSE IF Len(StripNonDigits(value)) # 10 THEN "Phone number must be exactly 10 digits"
    ELSE Null

validators_dob(value) ==
    IF variant = "C" /\ value = Undefined THEN Raised
    ELSE IF variant = "C" /\ Len(Trim(value)) = 0 THEN Null
    ELSE IF variant # "C" /\ Falsy(value) THEN "Date of birth is required"
    ELSE IF variant = "A" THEN Null
    ELSE DobRange(value)

validators_walletAddress(value) ==
    IF Falsy(value) \/ Len(Trim(value)) = 0 THEN "Wallet address is required"
    ELSE IF variant = "A" /\ ~ IsHexAddress(Trim(value))
         THEN "Please enter a valid Ethereum address"
    ELSE IF variant # "A" /\ ~ IsAddress(Trim(value))
         THEN "Please enter a valid Ethereum address"
    ELSE Null

(***************************************************************************)
(* AuthStorage.  The stored value is absent or the JSON text of a record;  *)
(* a property that is undefined is dropped by JSON.stringify, so a missing *)
(* property and an undefined one are the same stored value.                *)
(* localStorage.setItem is taken to succeed.                               *)
(***************************************************************************)
NoAuth == [kind |-> "absent", address |-> Undefined, signature |-> None,
           challenge |-> Undefined, ts |-> None, user |-> None, token |-> None]

\* an object literal { address, signature, challenge, ts, user, token }
AuthRecord(address, signature, challenge, ts, user, token) ==
    [kind |-> "json", address |-> address, signature |-> signature,
     challenge |-> challenge, ts |-> ts, user |-> user, token |-> token]

AuthStorage_getAuth == IF storage.kind = "json" THEN storage ELSE NoAuth
AuthStorage_setAuthWithoutTs(auth) == [auth EXCEPT !.kind = "json", !.ts = None]
AuthStorage_setAuth(auth) == [auth EXCEPT !.kind = "json"]
AuthStorage_storeEmptyObject == [NoAuth EXCEPT !.kind = "json"]
AuthStorage_clearAuth == NoAuth

Truthy(auth) == auth.kind = "json"
HasAddress(auth) == Truthy(auth) /\ auth.address \notin {Undefined, Empty}

WalletOnlyKeepingUser(auth) == auth
\* { address: auth.address, signature: auth.signature, challenge: auth.challenge, ts: auth.ts }
\* (variant A keeps address and ts only)
WalletOnly(auth) ==
    IF variant = "A"
    THEN AuthRecord(auth.address, None, Undefined, auth.ts, None, None)
    ELSE AuthRecord(auth.address, auth.signature, auth.challenge, auth.ts, None, None)

\* The objects handed to and returned by AuthStorage.  An object has the
\* fields of an AuthRecord (what reading each property gives) and own, the
\* names of the properties it has: { signature: undefined } has the property,
\* {} has not, and both read undefined.
Props == {"address", "signature", "challenge", "ts", "user", "token"}
Object(auth, own) ==
    [kind |-> auth.kind, address |-> auth.address, signature |-> auth.signature,
     challenge |-> auth.challenge, ts |-> auth.ts, user |-> auth.user,
     token |-> auth.token, own |-> own]
\* what reading a property that the object does not have gives (undefined)
Absent(p) == IF p \in {"address", "challenge"} THEN Undefined ELSE None
Defined(o, p) == o[p] # Absent(p)
\* JSON.stringify(auth): the text holds the own properties of auth whose value
\* is not undefined
JSON_stringify(o) ==
    [p \in Props \cup {"kind"} |->
        IF p = "kind" THEN o.kind
        ELSE IF p \in o.own /\ Defined(o, p) THEN o[p]
        ELSE Absent(p)]
\* JSON.parse(stored), for a text that parses: an object whose own properties
\* are the ones the text holds
JSON_parse(text) == Object(text, {p \in Props : Defined(text, p)})
\* null
NullObject == Object(NoAuth, {})
\* what localStorage holds under the key when it is not the text of a record:
\* a text that JSON.parse rejects, or nothing that can be read or written
\* (access to localStorage throws)
Corrupt == Object([NoAuth EXCEPT !.kind = "corrupt"], {})
Unreadable == Object([NoAuth EXCEPT !.kind = "unreadable"], {})
NoCaller == [arg |-> NullObject, ret |-> NullObject]

(***************************************************************************)
(* In-memory state                                                         *)
(***************************************************************************)
EmptyForm == [username |-> Empty, password |-> Empty, email |-> Empty,
              phone |-> Empty, dob |-> Empty]
NoSession == [user |-> None, token |-> None]          \* null (or undefined)
SessionTruthy == session # NoSession
\* session?.user (C), session (A, B)
SessionUser == session.user
\* session?.token
SessionToken == session.token
NoBalances == [set |-> FALSE, BNB |-> None, USDT |-> None, USDC |-> None]

\* what a user can type into one field
FieldInputs == [username |-> {Empty, <<"b","o","b">>},
                password |-> {Empty, <<"P","a","s","s","w","0","r","d","!">>},
                email    |-> {Empty, <<"a","@","b",".","c">>},
                phone    |-> {Empty, <<"1","2","3","4","5","6","7","8","9","0">>},
                dob      |-> {Empty, <<"2","0","0","0","-","0","1","-","0","1">>}]
Fields == DOMAIN FieldInputs

(***************************************************************************)
(* Requests in flight                                                      *)
(***************************************************************************)
\* bearer: the token of the Authorization header sent with it, None when the
\* request is sent with the Content-Type header alone
Req(kind, addr, saved, flag) ==
    [kind |-> kind, addr |-> addr, saved |-> saved, flag |-> flag, bearer |-> None]
\* a step of connectMetaMask: addr is accounts[0], seen the connectedAddress
\* of the render whose handler is running (captured by its listeners)
WalletReq(kind, addr, seen) == Req(kind, addr, [NoAuth EXCEPT !.address = seen], FALSE)
Plain(kind) == Req(kind, Undefined, NoAuth, FALSE)
NoAuthHeaders(stored) == None
\* getAuthHeaders() of C: const auth = AuthStorage.getAuth();
\* if (auth && auth.token) headers['Authorization'] = `Bearer ${auth.token}`.
\* The api objects of A and B send the Content-Type header alone.
getAuthHeaders(stored) ==
    LET auth == IF stored.kind = "json" THEN stored ELSE NoAuth
    IN  IF TokenBased /\ Truthy(auth) /\ auth.token # None THEN auth.token ELSE None
\* a request of api.getUsers, getMessages, sendMessage, deleteAllUsers or
\* deleteAllMessages, sent while localStorage holds stored
Authed(kind, stored) == [Plain(kind) EXCEPT !.bearer = getAuthHeaders(stored)]
\* requests and balance fetches under way
InFlight == Cardinality(pending) + Cardinality(fetches)
Room == InFlight < MaxInFlight

\* a request to window.ethereum: code 0 when it resolved, the error code when
\* it was rejected, Pending while the handler that made it is suspended on it
Pending == "pending"
Call(method, code) == [method |-> method, code |-> code]

\* a handler has changed state: a render is due, no pass was made yet and
\* formErrors is the object the handler left (object 0)
NoRenders == [passes |-> 0, due |-> TRUE, formErrors |-> 0, disabled |-> FALSE]
OpWallet(name, alert, requests, returned) ==
    /\ lastOp' = name
    /\ notice' = alert
    /\ calls' = requests
    /\ switched' = returned
    /\ answer' = None
    /\ held' = held
    /\ renders' = NoRenders
Op(name, alert) == OpWallet(name, alert, << >>, << >>)
\* the continuation of an api call: body is Rejected when the promise of
\* fetch() was rejected, "ok" for the body of a success, and for an error
\* body its message ("error" when it has none)
Rejected == "rejected"
OpAnswer(name, alert, body) ==
    /\ lastOp' = name
    /\ notice' = alert
    /\ calls' = << >>
    /\ switched' = << >>
    /\ answer' = body
    /\ held' = held
    /\ renders' = NoRenders

(***************************************************************************)
(* fetchBalances(addr), up to its first suspension point.  Variant A has   *)
(* no balances.  conn is window.ethereum.isConnected().                    *)
(***************************************************************************)
TOKENS == << "USDT", "USDC" >>
AllSymbols == {"BNB", "USDT", "USDC"}
\* the native coin, and in B one lookup for every entry of TOKENS
Symbols ==
    IF variant = "B"
    THEN {"BNB"} \cup {TOKENS[i] : i \in {k \in 1..Len(TOKENS) : k <= MaxTokens}}
    ELSE {"BNB"}
\* const balanceResults = { BNB: "0.0000", USDT: "0.00", USDC: "0.00" }
BalanceDefaults ==
    [sym \in AllSymbols |-> IF sym \notin Symbols THEN None
                            ELSE IF sym = "BNB" THEN "0.0000" ELSE "0.00"]
\* a fetchBalances call under way: its balanceResults, the lookups that have
\* settled and those of them that were rejected
Fetch(stage, addr) ==
    [stage |-> stage, addr |-> addr, results |-> BalanceDefaults,
     settled |-> {}, failed |-> {}]
Fetches(addr) == HasBalances /\ addr # Empty
FetchStarted(eth, conn, addr) ==
    IF ~ eth \/ ~ conn THEN Fetch("lookups", addr) ELSE Fetch("eth_chainId", addr)
FetchRequests(addr, conn) ==
    IF Fetches(addr) THEN {FetchStarted(hasEthereum, conn, addr)} ELSE {}
FetchLoading(addr) == IF Fetches(addr) THEN TRUE ELSE loadingBalances
\* getCorrectProvider runs up to its await in the handler that calls fetchBalances
FetchCalls(eth, conn, addr) ==
    IF Fetches(addr) /\ eth /\ conn THEN << Call("eth_chainId", Pending) >> ELSE << >>
FetchBalancesReset(addr) == IF Fetches(addr) THEN NoBalances ELSE balances

(***************************************************************************)
(* Page load: the initial useState values and the effects that run on      *)
(* mount (restore session; in A and B also loadUsers).                     *)
(***************************************************************************)
\* if (savedAuth?.address)
Restoring(savedAuth) == Durable /\ HasAddress(savedAuth)
ValidatingWithoutUser(savedAuth) == Restoring(savedAuth)
\* if (savedAuth.user && savedAuth.token)   (C);   if (savedAuth.user)   (B)
Validating(savedAuth) ==
    /\ Restoring(savedAuth)
    /\ savedAuth.user # None
    /\ TokenBased => savedAuth.token # None
MountStepOptimistic(savedAuth) ==
    IF Validating(savedAuth) THEN "chat"
    ELSE IF Restoring(savedAuth) THEN "chooseAuth" ELSE "connect"
\* useState("connect"); the effect calls setStep("chooseAuth") in its else
\* branch and leaves step alone while the validation is awaited
MountStep(savedAuth) ==
    IF Restoring(savedAuth) /\ ~ Validating(savedAuth) THEN "chooseAuth"
    ELSE "connect"

Mounted(eth, conn, stored) ==
    LET savedAuth == IF stored.kind = "json" THEN stored ELSE NoAuth
        restoring == Restoring(savedAuth)
        validating == Validating(savedAuth)
        fetch == IF restoring /\ HasBalances
                 THEN {FetchStarted(eth, conn, savedAuth.address)} ELSE {}
    IN  [hasEthereum |-> eth,
         storage |-> stored,
         step |-> MountStep(savedAuth),
         connectedAddress |-> IF restoring THEN savedAuth.address ELSE Empty,
         loadingBalances |-> (fetch # {}),
         fetches |-> fetch,
         calls |-> IF restoring THEN FetchCalls(eth, conn, savedAuth.address)
                   ELSE << >>,
         pending |-> (IF validating
                           THEN {[Req("validate", Undefined, savedAuth, FALSE)
                                   EXCEPT !.bearer = getAuthHeaders(stored)]}
                           ELSE {})
                     \cup (IF ~ TokenBased THEN {Plain("getUsers")} ELSE {})]

Reload ==
    /\ \E conn \in BOOLEAN :
          LET m == Mounted(hasEthereum, conn, IF Durable THEN storage ELSE NoAuth)
          IN  /\ hasEthereum' = m.hasEthereum
              /\ storage' = m.storage
              /\ step' = m.step
              /\ connectedAddress' = m.connectedAddress
              /\ loadingBalances' = m.loadingBalances
              /\ pending' = m.pending
              /\ fetches' = m.fetches
              /\ OpWallet("Reload", None, m.calls, << >>)
    /\ manualAddress' = Empty
    /\ form' = EmptyForm
    /\ session' = NoSession
    /\ partner' = None
    /\ users' = << >>
    /\ msgs' = << >>
    /\ balances' = NoBalances
    /\ listeners' = {}
    /\ UNCHANGED variant

(***************************************************************************)
(* Typing                                                                  *)
(***************************************************************************)
\* the user of the model types an address when connectManual could go ahead
\* with it
setManualAddress ==
    /\ step = "connect"
    /\ HasBalances => Room
    /\ \E v \in ManualInputs : manualAddress' = v
    /\ Op("setManualAddress", None)
    /\ UNCHANGED << variant, hasEthereum, step, connectedAddress, form, session,
                    partner, users, msgs, balances, loadingBalances, storage,
                    pending, fetches, listeners >>

\* the login screen shows the username and password inputs only;
\* the user of the model fills the fields from the top down
FieldOrder == <<"username", "password", "email", "phone", "dob">>
handleChange ==
    /\ step \in {"register", "login"}
    /\ \E k \in 1..Len(FieldOrder) :
        LET field == FieldOrder[k] IN
          /\ \A j \in 1..(k - 1) : form[FieldOrder[j]] # Empty
          /\ \A j \in (k + 1)..Len(FieldOrder) : form[FieldOrder[j]] = Empty
          /\ step = "login" => field \in {"username", "password"}
          /\ \E v \in FieldInputs[field] : form' = [form EXCEPT ![field] = v]
    /\ Op("handleChange", None)
    /\ UNCHANGED << variant, hasEthereum, step, connectedAddress, manualAddress,
                    session, partner, users, msgs, balances, loadingBalances,
                    storage, pending, fetches, listeners >>

(***************************************************************************)
(* Manual connect                                                          *)
(***************************************************************************)
ManualAuthSigned(addr, t) ==
    AuthRecord(addr, "s1", Undefined, t, None, None)
\* { address: addr, ts: Date.now() }
ManualAuth(addr, t) == AuthRecord(addr, None, Undefined, t, None, None)

\* addr is what const addr = manualAddress.trim() gives
ManualConnect(addr) ==
    /\ step = "connect"
    /\ LET validationError == validators_walletAddress(manualAddress)
       IN  IF validationError # Null
           THEN /\ Op("connectManual", validationError)
                /\ UNCHANGED << step, connectedAddress, storage, balances,
                                loadingBalances, fetches >>
           ELSE /\ HasBalances => Room
                /\ \E t \in Times, conn \in BOOLEAN :
                      /\ storage' = AuthStorage_setAuth(ManualAuth(addr, t))
                      /\ fetches' = fetches \cup FetchRequests(addr, conn)
                      /\ OpWallet("connectManual", None,
                                  FetchCalls(hasEthereum, conn, addr), << >>)
                /\ connectedAddress' = addr
                /\ loadingBalances' = FetchLoading(addr)
                /\ balances' = FetchBalancesReset(addr)
                /\ step' = "chooseAuth"
    /\ UNCHANGED << variant, hasEthereum, manualAddress, form, session, partner,
                    users, msgs, pending, listeners >>

connectManualUntrimmed == ManualConnect(manualAddress)
connectManual == ManualConnect(Trim(manualAddress))

(***************************************************************************)
(* MetaMask connect                                                        *)
(***************************************************************************)
\* the click; the handler then waits for the wallet (eth_requestAccounts,
\* switchToBSC() whose result it does not look at, getSigner, signMessage)
\* and touches no state of the page until the wallet has answered everything.
\* The user of the model clicks it with nothing typed into the address box.
connectMetaMask ==
    /\ step = "connect"
    /\ manualAddress = Empty
    /\ IF ~ hasEthereum
       THEN /\ Op("connectMetaMask",
                  IF variant = "A" THEN "MetaMask not detected. Please install MetaMask."
                  ELSE "MetaMask not detected. Please install MetaMask from https://metamask.io/")
            /\ UNCHANGED pending
       ELSE /\ Room
            /\ Cardinality(listeners) < MaxListeners
            /\ pending' = pending
                  \cup {WalletReq("connectMetaMask", Undefined, connectedAddress)}
            /\ OpWallet("connectMetaMask", None,
                        << Call("eth_requestAccounts", Pending) >>, << >>)
    /\ UNCHANGED << variant, hasEthereum, step, connectedAddress, manualAddress,
                    form, session, partner, users, msgs, balances,
                    loadingBalances, storage, fetches, listeners >>

\* `SecureChat authentication\nAddress: ${addr}\nTime: ${Date.now()}`; the
\* clock reading is the one the stored ts gets
Challenge(address, t) == <<address, t>>
\* err.code === 4001 ? ... : ...   (A has one text)
ConnectFailure(code) ==
    IF variant = "A" THEN "Failed to connect to MetaMask. Please try again."
    ELSE IF code = 4001 THEN "You rejected the connection request. Please try again."
    ELSE "Failed to connect to MetaMask. Please make sure it's unlocked."
ErrorCodes == {4001, -32603}

\* switchToBSC(), given how the wallet answers wallet_switchEthereumChain and
\* wallet_addEthereumChain: the requests it makes and the value it returns
UnknownChain == 4902
SwitchCodes == {0, UnknownChain, 4001}
AddCodes == {0, 4001}
switchToBSC(eth, switchCode, addCode) ==
    IF ~ eth THEN [calls |-> << >>, returned |-> FALSE]
    ELSE IF switchCode = 0
    THEN [calls |-> << Call("wallet_switchEthereumChain", 0) >>, returned |-> TRUE]
    ELSE IF switchCode = UnknownChain
    THEN IF addCode = 0
         THEN [calls |-> << Call("wallet_switchEthereumChain", switchCode),
                            Call("wallet_addEthereumChain", 0) >>,
               returned |-> TRUE]
         ELSE [calls |-> << Call("wallet_switchEthereumChain", switchCode),
                            Call("wallet_addEthereumChain", addCode) >>,
               returned |-> FALSE]
    ELSE [calls |-> << Call("wallet_switchEthereumChain", switchCode) >>,
          returned |-> FALSE]
SwitchOutcomes ==
    {switchToBSC(hasEthereum, sc, ac) : sc \in SwitchCodes, ac \in AddCodes}

\* the rest of connectMetaMask, once the wallet has answered: accounts, then
\* (B, C) await switchToBSC() whose return value is dropped, then
\* getSigner() and signMessage(challenge)
connectMetaMaskResponse ==
    \E r \in pending :
       /\ r.kind = "connectMetaMask"
       /\ pending' = pending \ {r}
       /\ \/ \E code \in ErrorCodes :          \* eth_requestAccounts refused
                /\ OpWallet("connectMetaMaskResponse", ConnectFailure(code),
                            << Call("eth_requestAccounts", code) >>, << >>)
                /\ UNCHANGED << storage, connectedAddress, step, balances,
                                loadingBalances, fetches, listeners >>
          \/ /\ OpWallet("connectMetaMaskResponse",  \* accounts.length === 0
                         "Please connect at least one account in MetaMask.",
                         << Call("eth_requestAccounts", 0) >>, << >>)
             /\ UNCHANGED << storage, connectedAddress, step, balances,
                             loadingBalances, fetches, listeners >>
          \/ \E addr \in WalletAccounts, t \in Times :
                IF variant = "A"
                THEN /\ storage' = AuthStorage_setAuth(
                            AuthRecord(addr, None, Undefined, t, None, None))
                     /\ connectedAddress' = addr
                     /\ step' = "chooseAuth"
                     /\ OpWallet("connectMetaMaskResponse", None,
                                 << Call("eth_requestAccounts", 0) >>, << >>)
                     /\ UNCHANGED << balances, loadingBalances, fetches, listeners >>
                ELSE \E o \in SwitchOutcomes :
                       \/ \E code \in ErrorCodes :     \* the signature refused
                             /\ OpWallet("connectMetaMaskResponse", ConnectFailure(code),
                                         << Call("eth_requestAccounts", 0) >> \o o.calls
                                            \o << Call("personal_sign", code) >>,
                                         << o.returned >>)
                             /\ UNCHANGED << storage, connectedAddress, step, balances,
                                             loadingBalances, fetches, listeners >>
                       \/ \E signature \in Signatures, conn \in BOOLEAN :
                             /\ storage' = AuthStorage_setAuth(
                                    AuthRecord(addr, signature, Challenge(addr, t),
                                               t, None, None))
                             /\ connectedAddress' = addr
                             /\ fetches' = fetches \cup FetchRequests(addr, conn)
                             /\ loadingBalances' = FetchLoading(addr)
                             /\ balances' = FetchBalancesReset(addr)
                             /\ step' = "chooseAuth"
                             /\ listeners' = listeners \cup {r.saved.address}
                             /\ OpWallet("connectMetaMaskResponse", None,
                                         << Call("eth_requestAccounts", 0) >> \o o.calls
                                            \o << Call("personal_sign", 0) >>
                                            \o FetchCalls(hasEthereum, conn, addr),
                                         << o.returned >>)
       /\ UNCHANGED << variant, hasEthereum, manualAddress, form, session, partner,
                       users, msgs >>

(***************************************************************************)
(* Logout, disconnect, navigation                                          *)
(***************************************************************************)
\* clearAllSessionData(); clearWalletData()
ClearedAll ==
    /\ session' = NoSession
    /\ partner' = None
    /\ users' = << >>
    /\ msgs' = << >>
    /\ form' = EmptyForm
    /\ connectedAddress' = Empty
    /\ manualAddress' = Empty
    /\ balances' = NoBalances
    /\ loadingBalances' = FALSE

LoggedOutKeepingBalances ==
    /\ storage' = AuthStorage_clearAuth
    /\ session' = NoSession
    /\ partner' = None
    /\ users' = << >>
    /\ msgs' = << >>
    /\ form' = EmptyForm
    /\ connectedAddress' = Empty
    /\ manualAddress' = Empty
    /\ loadingBalances' = FALSE
    /\ step' = "connect"
    /\ UNCHANGED balances

\* AuthStorage.clearAuth(); clearAllSessionData(); clearWalletData();
\* setStep("connect")
LoggedOut ==
    /\ storage' = AuthStorage_clearAuth
    /\ ClearedAll
    /\ step' = "connect"

\* Navbar: the Logout button is shown when a user is passed and calls onLogout
handleLogout ==
    /\ SessionUser # None
    /\ LoggedOut
    /\ Op("handleLogout", None)
    /\ UNCHANGED << variant, hasEthereum, pending, fetches, listeners >>

\* Navbar: Back on the chooseAuth screen
handleDisconnect ==
    /\ step = "chooseAuth"
    /\ TokenBased => connectedAddress # Empty
    /\ LoggedOut
    /\ Op("handleDisconnect", None)
    /\ UNCHANGED << variant, hasEthereum, pending, fetches, listeners >>

NavigateToStep(newStep) ==
    /\ form' = IF (step \in {"register", "login"}
                   /\ newStep \in {"register", "login", "chooseAuth"})
                  \/ (newStep = "chooseAuth" /\ SessionTruthy)
               THEN EmptyForm ELSE form
    /\ IF newStep = "chooseAuth" /\ SessionTruthy
       THEN /\ session' = NoSession
            /\ partner' = None
            /\ users' = << >>
            /\ msgs' = << >>
            /\ storage' = IF Truthy(AuthStorage_getAuth)
                          THEN AuthStorage_setAuth(WalletOnly(AuthStorage_getAuth))
                          ELSE storage
       ELSE UNCHANGED << session, partner, users, msgs, storage >>
    /\ step' = newStep
    /\ UNCHANGED << variant, hasEthereum, connectedAddress, manualAddress,
                    balances, loadingBalances, pending, fetches, listeners >>

\* the Register and Login buttons of the chooseAuth screen
chooseRegister ==
    /\ step = "chooseAuth"
    /\ NavigateToStep("register")
    /\ Op("chooseRegister", None)

chooseLogin ==
    /\ step = "chooseAuth"
    /\ NavigateToStep("login")
    /\ Op("chooseLogin", None)

\* Navbar: Back on the register and login screens (in C also on chooseAuth
\* when no address is connected)
goBack ==
    /\ step \notin {"connect", "chat"}
    /\ step = "chooseAuth" => (TokenBased /\ connectedAddress = Empty)
    /\ NavigateToStep("chooseAuth")
    /\ Op("goBack", None)

(***************************************************************************)
(* Wallet events                                                           *)
(***************************************************************************)
handleAccountsChanged ==
    /\ listeners # {}
    /\ \/ /\ LoggedOut
          /\ Op("handleAccountsChanged_none", None)
          /\ UNCHANGED fetches
       \/ \E newAddr \in OtherAccounts, conn \in BOOLEAN :
             LET currentAuth == AuthStorage_getAuth
             IN  /\ Room
                 /\ connectedAddress' = newAddr
                 /\ fetches' = fetches \cup FetchRequests(newAddr, conn)
                 /\ loadingBalances' = FetchLoading(newAddr)
                 /\ balances' = FetchBalancesReset(newAddr)
                 /\ storage' = IF Truthy(currentAuth)
                               THEN AuthStorage_setAuth(
                                        [currentAuth EXCEPT !.address = newAddr])
                               ELSE storage
                 /\ OpWallet("handleAccountsChanged", None,
                             FetchCalls(hasEthereum, conn, newAddr), << >>)
                 /\ UNCHANGED << step, manualAddress, form, session, partner,
                                 users, msgs >>
    /\ UNCHANGED << variant, hasEthereum, pending, listeners >>

\* every registered listener runs with the connectedAddress it captured
handleChainChanged ==
    /\ listeners # {}
    /\ \E conn \in BOOLEAN :
          LET started == UNION {FetchRequests(seen, conn) : seen \in listeners}
          IN  /\ started # {} => Room
              /\ fetches' = fetches \cup started
              /\ loadingBalances' = IF started # {} THEN TRUE ELSE loadingBalances
              /\ balances' = IF started # {} THEN NoBalances ELSE balances
              /\ OpWallet("handleChainChanged", None,
                          IF started # {} /\ hasEthereum /\ conn
                          THEN << Call("eth_chainId", Pending) >> ELSE << >>,
                          << >>)
    /\ UNCHANGED << variant, hasEthereum, step, connectedAddress, manualAddress,
                    form, session, partner, users, msgs, storage, pending,
                    listeners >>

(***************************************************************************)
(* fetchBalances after its first suspension point                          *)
(***************************************************************************)
BalanceValue(sym) == IF sym = "BNB" THEN "1.0000" ELSE "1.00"
BalanceSet(res) == [set |-> TRUE, BNB |-> res["BNB"], USDT |-> res["USDT"],
                    USDC |-> res["USDC"]]
AllError == [sym \in AllSymbols |-> IF sym \in Symbols THEN "Error" ELSE None]

\* getCorrectProvider after its await: eth_chainId may be refused (the outer
\* catch of fetchBalances publishes "Error" for every symbol); on another
\* chain switchToBSC() and the 500 ms timer are awaited and what
\* switchToBSC() returned is not looked at.  Then the lookups are started.
FetchRaised(f) ==
    /\ fetches' = fetches \ {f}
    /\ UNCHANGED << balances, loadingBalances >>
\* catch (error) { setBalances({ BNB: "Error", ... }) } finally { setLoadingBalances(false) }
FetchFailed(f) ==
    /\ balances' = BalanceSet(AllError)
    /\ loadingBalances' = FALSE
    /\ fetches' = fetches \ {f}

getCorrectProvider ==
    \E f \in fetches :
       /\ f.stage = "eth_chainId"
       /\ \/ \E code \in ErrorCodes :
                /\ FetchFailed(f)
                /\ OpWallet("getCorrectProvider", None,
                            << Call("eth_chainId", code) >>, << >>)
          \/ /\ fetches' = (fetches \ {f}) \cup {[f EXCEPT !.stage = "lookups"]}
             /\ \/ OpWallet("getCorrectProvider", None,
                             << Call("eth_chainId", 0) >>, << >>)
                \/ \E o \in SwitchOutcomes :
                      OpWallet("getCorrectProvider", None,
                               << Call("eth_chainId", 0) >> \o o.calls,
                               << o.returned >>)
             /\ UNCHANGED << balances, loadingBalances >>
       /\ UNCHANGED << variant, hasEthereum, step, connectedAddress,
                       manualAddress, form, session, partner, users, msgs,
                       storage, pending, listeners >>

LookupCatchAll(f, sym, ok) ==
    IF ok THEN [f.results EXCEPT ![sym] = BalanceValue(sym)] ELSE AllError
\* .then(balance => balanceResults[sym] = ...) / .catch(err => balanceResults[sym] = "Error")
LookupResult(f, sym, ok) ==
    [f.results EXCEPT ![sym] = IF ok THEN BalanceValue(sym) ELSE "Error"]

\* one lookup of the call f settles
LookupSettles(f) ==
    /\ f.stage = "lookups"
    /\ \E sym \in Symbols, ok \in BOOLEAN :
          /\ sym \notin f.settled
          /\ fetches' = (fetches \ {f}) \cup
                 {[f EXCEPT !.results = LookupResult(f, sym, ok),
                            !.settled = @ \cup {sym},
                            !.failed = IF ok THEN @ ELSE @ \cup {sym}]}
    /\ Op("lookupSettled", None)
    /\ UNCHANGED << variant, hasEthereum, step, connectedAddress,
                    manualAddress, form, session, partner, users, msgs,
                    balances, loadingBalances, storage, pending, listeners >>

lookupSettled == \E f \in fetches : LookupSettles(f)
\* a lookup settles in a call of which n lookups had settled
lookupSettledAfter(n) ==
    \E f \in fetches : Cardinality(f.settled) = n /\ LookupSettles(f)

AnySettled(f) == f.settled # {}
\* await Promise.all(promises) is over
AllSettled(f) == f.settled = Symbols

\* setBalances(balanceResults); finally setLoadingBalances(false)
fetchBalancesDone ==
    \E f \in fetches :
       /\ f.stage = "lookups"
       /\ AllSettled(f)
       /\ balances' = BalanceSet(f.results)
       /\ fetches' = fetches \ {f}
       /\ loadingBalances' = FALSE
       /\ Op("fetchBalancesDone", None)
       /\ UNCHANGED << variant, hasEthereum, step, connectedAddress,
                       manualAddress, form, session, partner, users, msgs,
                       storage, pending, listeners >>

(***************************************************************************)
(* Backend responses.  The backend is outside the program: a response is   *)
(* any body of the shapes the code inspects, or a rejection.               *)
(***************************************************************************)
Msg(sender, receiver) == [sender |-> sender, receiver |-> receiver]
UserLists == { << >>, <<"u1", "u2", "u3">> }
MsgLists == { << >>, <<Msg("u1", "u2"), Msg("u2", "u1")>>,
              <<Msg("u3", "u1"), Msg("u1", "u3"), Msg("u3", "u1")>> }
TokenExpired == "Invalid or expired token"
\* { success, message, user, token }
AuthResult(success, message, user, token) ==
    [success |-> success, message |-> message, user |-> user, token |-> token]
AuthResults ==
    {AuthResult(TRUE, None, u, t) : u \in Accounts, t \in Tokens}
    \cup {AuthResult(TRUE, None, None, t) : t \in Tokens}
    \cup {AuthResult(TRUE, None, u, None) : u \in Accounts}
    \cup {AuthResult(FALSE, m, None, None) : m \in {None, "Wrong password"}}
\* the body of a write (sendMessage, deleteAllUsers, deleteAllMessages):
\* { success: true } or an error object
WriteResults ==
    {AuthResult(TRUE, None, None, None)}
    \cup {AuthResult(FALSE, m, None, None) : m \in {None, TokenExpired, "Server error"}}
Answer(result) ==
    IF result.success THEN "ok"
    ELSE IF result.message # None THEN result.message ELSE "error"
AnswerList(data) == IF data.isArray THEN "ok" ELSE data.message
\* a body that is an array (list) or an error object (message)
ListResult(lists) ==
    {[isArray |-> TRUE, list |-> l, message |-> None] : l \in lists}
    \cup {[isArray |-> FALSE, list |-> << >>, message |-> m] :
             m \in {TokenExpired, "Server error"}}
                     \cup [isArray : {FALSE}, list : {<< >>},
                           message : {TokenExpired, "Server error"}]

\* the test of msgs.filter(...): sent by the user to the partner or by the
\* partner to the user
InThreadSentOnly(m) == m.sender = SessionUser /\ m.receiver = partner
InThread(m) ==
    \/ m.sender = SessionUser /\ m.receiver = partner
    \/ m.sender = partner /\ m.receiver = SessionUser
\* const thread = msgs.filter(...), computed at every render
thread == SelectSeq(msgs, InThread)

\* effects that run after a render in which session / partner changed:
\* useEffect(loadUsers, [session?.token]) in C, useEffect(loadMessages, [session, partner])
EffectRequests(sessionChanged, newSession, newPartner, stored) ==
    (IF TokenBased /\ newSession.token # None /\ newSession.token # session.token
     THEN {Authed("getUsers", stored)} ELSE {})
    \cup
    (IF sessionChanged /\ newSession # NoSession /\ newPartner # None
        /\ (TokenBased => newSession.token # None)
     THEN {Authed("getMessages", stored)} ELSE {})

(***************************************************************************)
(* login                                                                   *)
(***************************************************************************)
login ==
    /\ step = "login"
    /\ IF validators_username(form.username) # Null
          \/ validators_password(form.password) # Null
       THEN /\ Op("login", "Please enter valid username and password.")
            /\ UNCHANGED pending
       ELSE /\ Room
            /\ pending' = pending \cup {Plain("login")}
            /\ Op("login", None)
    /\ UNCHANGED << variant, hasEthereum, step, connectedAddress, manualAddress,
                    form, session, partner, users, msgs, balances,
                    loadingBalances, storage, fetches, listeners >>

\* if (result.success && result.user && result.token)   (C)
\* if (result.success)                                  (A, B)
LoginAccepted(result) ==
    IF TokenBased
    THEN result.success /\ result.user # None /\ result.token # None
    ELSE result.success

LoginRefusedClearingForm(r, alert, body) ==
    /\ OpAnswer("loginResponse", alert, body)
    /\ pending' = pending \ {r}
    /\ form' = EmptyForm
    /\ UNCHANGED << storage, session, step >>
\* alert(result.message || "Invalid credentials"), or the alert of the catch
LoginRefused(r, alert, body) ==
    /\ OpAnswer("loginResponse", alert, body)
    /\ pending' = pending \ {r}
    /\ UNCHANGED << storage, session, form, step >>

loginResponse ==
    \E r \in pending :
       /\ r.kind = "login"
       /\ \/ \E result \in AuthResults :
                IF LoginAccepted(result)
                THEN LET currentAuth == AuthStorage_getAuth
                         newSession == [user |-> result.user,
                                        token |-> IF TokenBased THEN result.token
                                                  ELSE None]
                         newAuth == AuthStorage_setAuth(
                                [currentAuth EXCEPT !.user = result.user,
                                    !.token = IF TokenBased THEN result.token ELSE @])
                     IN  /\ storage' = newAuth
                         /\ session' = newSession
                         /\ form' = EmptyForm
                         /\ step' = "chat"
                         /\ pending' = (pending \ {r})
                                \cup EffectRequests(TRUE, newSession, partner, newAuth)
                                \cup (IF TokenBased THEN {} ELSE {Plain("getUsers")})
                         /\ OpAnswer("loginResponse", None, Answer(result))
                ELSE LoginRefused(r, IF result.message # None THEN result.message
                                     ELSE "Invalid credentials", Answer(result))
          \/ LoginRefused(r, "Login failed. Please try again.", Rejected)
       /\ UNCHANGED << variant, hasEthereum, connectedAddress, manualAddress,
                       partner, users, msgs, balances, loadingBalances, fetches, listeners >>

(***************************************************************************)
(* register                                                                *)
(***************************************************************************)
AllValidatorsPass ==
    /\ validators_username(form.username) = Null
    /\ validators_password(form.password) = Null
    /\ validators_email(form.email) = Null
    /\ validators_phone(form.phone) = Null
    /\ validators_dob(form.dob) = Null
\* A: validateForm also wants every value non-blank; B: validateForm; C: isFormValid
RegisterFormValid ==
    /\ AllValidatorsPass
    /\ variant = "A" => \A f \in Fields : Trim(form[f]) # Empty

register ==
    /\ step = "register"
    /\ IF ~ RegisterFormValid
       THEN /\ Op("register", "Please fix all validation errors before registering.")
            /\ UNCHANGED pending
       ELSE IF TokenBased /\ connectedAddress = Empty
       THEN /\ Op("register", "Please connect your wallet first.")
            /\ UNCHANGED pending
       ELSE /\ Room
            /\ pending' = pending \cup
                  {Req("register", Undefined, NoAuth,
                       TokenBased => SessionToken # None)}
            /\ Op("register", None)
    /\ UNCHANGED << variant, hasEthereum, step, connectedAddress, manualAddress,
                    form, session, partner, users, msgs, balances,
                    loadingBalances, storage, fetches, listeners >>

RegisteredKeepingForm(r) ==
    /\ step' = "login"
    /\ pending' = (pending \ {r}) \cup (IF r.flag THEN {Authed("getUsers", storage)} ELSE {})
    /\ OpAnswer("registerResponse", "Registration successful! Please login.", "ok")
    /\ UNCHANGED form
\* the branch of result.success; r.flag: the loadUsers captured by the handler
\* does issue its request
Registered(r) ==
    /\ form' = EmptyForm
    /\ step' = "login"
    /\ pending' = (pending \ {r}) \cup (IF r.flag THEN {Authed("getUsers", storage)} ELSE {})
    /\ OpAnswer("registerResponse", "Registration successful! Please login.", "ok")

registerResponse ==
    \E r \in pending :
       /\ r.kind = "register"
       /\ \/ \E result \in AuthResults :
                IF result.success
                THEN Registered(r)
                ELSE /\ OpAnswer("registerResponse",
                                IF result.message # None THEN result.message
                                ELSE "Registration failed", Answer(result))
                     /\ pending' = pending \ {r}
                     /\ UNCHANGED << form, step >>
          \/ /\ OpAnswer("registerResponse",
                         "Registration failed. Please try again.", Rejected)
             /\ pending' = pending \ {r}
             /\ UNCHANGED << form, step >>
       /\ UNCHANGED << variant, hasEthereum, connectedAddress, manualAddress,
                       session, partner, users, msgs, balances, loadingBalances,
                       storage, fetches, listeners >>

(***************************************************************************)
(* Session restore: the answer to the getUsers request of the mount effect *)
(***************************************************************************)
validateResponse ==
    \E r \in pending :
       /\ r.kind = "validate"
       /\ LET savedAuth == r.saved
              newSession == [user |-> savedAuth.user,
                             token |-> IF TokenBased THEN savedAuth.token ELSE None]
              stripped == AuthStorage_setAuth(
                              AuthRecord(savedAuth.address, savedAuth.signature,
                                         savedAuth.challenge, savedAuth.ts, None, None))
          IN  \/ \E usersData \in ListResult(UserLists) :
                    IF usersData.isArray
                       /\ \E i \in 1..Len(usersData.list) :
                             usersData.list[i] = savedAuth.user
                    THEN /\ session' = newSession
                         /\ step' = "chat"
                         /\ pending' = (pending \ {r})
                                \cup EffectRequests(TRUE, newSession, partner, storage)
                         /\ OpAnswer("validateResponse", None, "ok")
                         /\ UNCHANGED storage
                    ELSE /\ storage' = stripped
                         /\ step' = "chooseAuth"
                         /\ pending' = pending \ {r}
                         /\ OpAnswer("validateResponse", None, AnswerList(usersData))
                         /\ UNCHANGED session
              \/ /\ storage' = IF TokenBased THEN stripped ELSE storage
                 /\ step' = "chooseAuth"
                 /\ pending' = pending \ {r}
                 /\ OpAnswer("validateResponse", None, Rejected)
                 /\ UNCHANGED session
       /\ UNCHANGED << variant, hasEthereum, connectedAddress, manualAddress, form,
                       partner, users, msgs, balances, loadingBalances, fetches, listeners >>

(***************************************************************************)
(* loadUsers / loadMessages continuations                                  *)
(***************************************************************************)
getUsersResponse ==
    \E r \in pending :
       /\ r.kind = "getUsers"
       /\ pending' = pending \ {r}
       /\ \/ \E usersData \in ListResult(UserLists) :
                IF TokenBased /\ ~ usersData.isArray /\ usersData.message = TokenExpired
                THEN /\ LoggedOut
                     /\ OpAnswer("getUsersResponse",
                                "Your session has expired. Please log in again.",
                                AnswerList(usersData))
                ELSE /\ users' = usersData.list
                     /\ OpAnswer("getUsersResponse", None, AnswerList(usersData))
                     /\ UNCHANGED << step, connectedAddress, manualAddress, form,
                                     session, partner, msgs, balances,
                                     loadingBalances, storage >>
          \/ /\ users' = << >>
             /\ OpAnswer("getUsersResponse", None, Rejected)
             /\ UNCHANGED << step, connectedAddress, manualAddress, form, session,
                             partner, msgs, balances, loadingBalances, storage >>
       /\ UNCHANGED << variant, hasEthereum, fetches, listeners >>

getMessagesResponse ==
    \E r \in pending :
       /\ r.kind = "getMessages"
       /\ pending' = pending \ {r}
       /\ \/ \E messagesData \in ListResult(MsgLists) :
                IF TokenBased /\ ~ messagesData.isArray
                   /\ messagesData.message = TokenExpired
                THEN /\ LoggedOut
                     /\ OpAnswer("getMessagesResponse",
                                "Your session has expired. Please log in again.",
                                AnswerList(messagesData))
                ELSE /\ msgs' = messagesData.list
                     /\ OpAnswer("getMessagesResponse", None, AnswerList(messagesData))
                     /\ UNCHANGED << step, connectedAddress, manualAddress, form,
                                     session, partner, users, balances,
                                     loadingBalances, storage >>
          \/ /\ msgs' = << >>
             /\ OpAnswer("getMessagesResponse", None, Rejected)
             /\ UNCHANGED << step, connectedAddress, manualAddress, form, session,
                             partner, users, balances, loadingBalances, storage >>
       /\ UNCHANGED << variant, hasEthereum, fetches, listeners >>

(***************************************************************************)
(* Chat screen (rendered when step is "chat" and a session user exists)    *)
(***************************************************************************)
ChatShown == step = "chat" /\ SessionUser # None

\* UserItem onClick={() => setPartner(u)}; the list leaves out the session user
selectPartner ==
    /\ ChatShown
    /\ \E i \in 1..Len(users) :
          /\ users[i] # SessionUser
          /\ partner' = users[i]
          /\ LET reqs == EffectRequests(TRUE, session, users[i], storage)
             IN  /\ reqs # {} => Room
                 /\ pending' = pending \cup reqs
    /\ Op("selectPartner", None)
    /\ UNCHANGED << variant, hasEthereum, step, connectedAddress, manualAddress,
                    form, session, users, msgs, balances, loadingBalances,
                    storage, fetches, listeners >>

\* the draft in the message box is not kept in the model: sendMsg is taken
\* with a non-blank draft
sendMsg ==
    /\ ChatShown
    /\ partner # None
    /\ TokenBased => SessionToken # None
    /\ Room
    /\ pending' = pending \cup {Authed("sendMessage", storage)}
    /\ Op("sendMsg", None)
    /\ UNCHANGED << variant, hasEthereum, step, connectedAddress, manualAddress,
                    form, session, partner, users, msgs, balances,
                    loadingBalances, storage, fetches, listeners >>

sendMessageResponse ==
    \E r \in pending :
       /\ r.kind = "sendMessage"
       /\ \/ \E result \in WriteResults :
                IF result.success
                THEN /\ pending' = (pending \ {r}) \cup {Authed("getMessages", storage)}
                     /\ OpAnswer("sendMessageResponse", None, Answer(result))
                ELSE /\ pending' = pending \ {r}
                     /\ OpAnswer("sendMessageResponse",
                                IF TokenBased /\ result.message # None
                                THEN result.message
                                ELSE "Failed to send message", Answer(result))
          \/ /\ pending' = pending \ {r}
             /\ OpAnswer("sendMessageResponse",
                         "Failed to send message. Please try again.", Rejected)
       /\ UNCHANGED << variant, hasEthereum, step, connectedAddress, manualAddress,
                       form, session, partner, users, msgs, balances,
                       loadingBalances, storage, fetches, listeners >>

DeleteUnconfirmed(confirmed) == TRUE
\* if (window.confirm("Are you sure? ...")) { ... }
DeleteConfirmed(confirmed) == confirmed

\* confirmed: what window.confirm(...) returned
clearAllUsers ==
    /\ ChatShown
    /\ \E confirmed \in BOOLEAN :
          /\ IF DeleteConfirmed(confirmed)
             THEN /\ Room
                  /\ pending' = pending \cup {Authed("deleteAllUsers", storage)}
             ELSE UNCHANGED pending
          /\ Op(IF confirmed THEN "clearAllUsers" ELSE "clearAllUsers_declined", None)
    /\ UNCHANGED << variant, hasEthereum, step, connectedAddress, manualAddress,
                    form, session, partner, users, msgs, balances,
                    loadingBalances, storage, fetches, listeners >>

deleteAllUsersResponse ==
    \E r \in pending :
       /\ r.kind = "deleteAllUsers"
       /\ \/ \E result \in WriteResults :
                \* the body is not looked at
                /\ pending' = (pending \ {r}) \cup {Authed("deleteAllMessages", storage)}
                /\ OpAnswer("deleteAllUsersResponse", None, Answer(result))
          \/ /\ pending' = pending \ {r}
             /\ OpAnswer("deleteAllUsersResponse",
                         "Failed to clear users. Please try again.", Rejected)
       /\ UNCHANGED << variant, hasEthereum, step, connectedAddress, manualAddress,
                       form, session, partner, users, msgs, balances,
                       loadingBalances, storage, fetches, listeners >>

deleteAllMessagesResponse ==
    \E r \in pending :
       /\ r.kind = "deleteAllMessages"
       /\ pending' = pending \ {r}
       /\ \/ /\ session' = NoSession
             /\ partner' = None
             /\ users' = << >>
             /\ msgs' = << >>
             /\ form' = EmptyForm
             /\ storage' = IF Truthy(AuthStorage_getAuth)
                           THEN AuthStorage_setAuth(WalletOnly(AuthStorage_getAuth))
                           ELSE storage
             /\ step' = "chooseAuth"
             /\ \E result \in WriteResults :
                   \* the body is not looked at
                   OpAnswer("deleteAllMessagesResponse", None, Answer(result))
          \/ /\ OpAnswer("deleteAllMessagesResponse",
                         "Failed to clear users. Please try again.", Rejected)
             /\ UNCHANGED << session, partner, users, msgs, form, storage, step >>
       /\ UNCHANGED << variant, hasEthereum, connectedAddress, manualAddress,
                       balances, loadingBalances, fetches, listeners >>

(***************************************************************************)
(* Specification                                                           *)
(***************************************************************************)
Init ==
    /\ variant \in Variants
    /\ \E eth \in BOOLEAN :
          LET m == Mounted(eth, TRUE, NoAuth)
          IN  /\ hasEthereum = m.hasEthereum
              /\ storage = m.storage
              /\ step = m.step
              /\ connectedAddress = m.connectedAddress
              /\ loadingBalances = m.loadingBalances
              /\ pending = m.pending
              /\ fetches = m.fetches
    /\ manualAddress = Empty
    /\ form = EmptyForm
    /\ session = NoSession
    /\ partner = None
    /\ users = << >>
    /\ msgs = << >>
    /\ balances = NoBalances
    /\ listeners = {}
    /\ lastOp = "Init"
    /\ notice = None
    /\ calls = << >>
    /\ switched = << >>
    /\ answer = None
    /\ held = NoCaller
    /\ renders = NoRenders

Next ==
    \/ Reload
    \/ setManualAddress
    \/ handleChange
    \/ connectManual
    \/ connectMetaMask
    \/ connectMetaMaskResponse
    \/ handleAccountsChanged
    \/ handleChainChanged
    \/ getCorrectProvider
    \/ lookupSettled
    \/ fetchBalancesDone
    \/ handleLogout
    \/ handleDisconnect
    \/ chooseRegister
    \/ chooseLogin
    \/ goBack
    \/ login
    \/ loginResponse
    \/ register
    \/ registerResponse
    \/ validateResponse
    \/ getUsersResponse
    \/ getMessagesResponse
    \/ selectPartner
    \/ sendMsg
    \/ sendMessageResponse
    \/ clearAllUsers
    \/ deleteAllUsersResponse
    \/ deleteAllMessagesResponse

Spec == Init /\ [][Next]_vars

\* navigateToStep("chooseAuth") called on the chat screen.  No control of the
\* rendered page calls it there (onBack is null when step is "chat"); this
\* applies the handler as the function it is.
switchAccount ==
    /\ step = "chat"
    /\ SessionUser # None
    /\ NavigateToStep("chooseAuth")
    /\ Op("switchAccount", None)

NextContract == Next \/ switchAccount

SpecContract == Init /\ [][NextContract]_vars

\* Every request fetchBalances awaits (eth_chainId, the chain switch inside
\* switchToBSC, each balance lookup) is a promise of the wallet or of the RPC
\* endpoint; the wallet and the endpoint answer or reject each of them, and
\* the continuation of a settled promise is run by the event loop.  The
\* lookups of a call that is further on are not held up by those of a call
\* that started later.
SpecLive ==
    /\ Spec
    /\ WF_vars(getCorrectProvider)
    /\ \A n \in 0..MaxTokens : WF_vars(lookupSettledAfter(n))
    /\ WF_vars(fetchBalancesDone)

(***************************************************************************)
(* The validators as functions.  A field of the form (or the address box   *)
(* of the connect screen) holds one value of a bounded set of inputs,      *)
(* among them undefined, and a validator is applied to the value of its    *)
(* field; notice holds what it returned (Null, a message) or Raised when   *)
(* it threw.                                                               *)
(***************************************************************************)
UsernameInputs ==
    {Undefined, Empty, <<" ", " ", " ">>,
     <<"a","b">>, <<"b","o","b">>, Rep("a", 20), Rep("a", 21),
     <<" ","b","o","b"," ">>, <<" ","a","b"," ">>, <<" ">> \o Rep("a", 20),
     <<"a"," ","b">>, <<"b","o","b","!">>, <<"B","_","9">>}
PasswordInputs ==
    {Undefined, Empty, <<"A","a","1","!">>, Rep(" ", 8),
     <<"1","2","3","4","5","6","7","8">>, <<"1","2","3","4","5","6","7","A">>,
     <<"a","b","c","d","e","f","g","h">>, <<"A","b","c","d","e","f","g","h">>,
     <<"A","b","c","d","e","f","g","!">>, <<"P","A","S","S","W","0","R","D","!">>,
     <<"P","a","s","s","w","0","r","d">>, <<"P","a","s","s","w","0","r","d","!">>,
     <<"P","a","s","s","w","0","r","d","#">>}
EmailInputs ==
    {Undefined, Empty, <<" ">>, <<"a","@","b",".","c">>, <<" ","a","@","b",".","c"," ">>,
     <<"a","@","b">>, <<"a","b",".","c">>, <<"a"," ","@","b",".","c">>}
PhoneInputs ==
    {Undefined, Empty, <<" ">>, <<"1","2","3","4","5","6","7","8","9","0">>,
     <<"1","2","3","-","4","5","6","-","7","8","9","0">>,
     <<"1","2","3">>, <<"a","b","c">>}
DobInputs ==
    {Undefined, Empty, <<" ">>, <<"a","b","c">>,
     <<"2","0","0","0","-","0","1","-","0","1">>,
     <<"2","0","1","3","-","1","0","-","3","0">>,
     <<"2","0","1","3","-","1","1","-","0","3">>,
     <<"2","0","2","0","-","0","1","-","0","1">>,
     <<"1","9","0","6","-","1","1","-","0","3">>,
     <<"1","9","0","6","-","1","0","-","3","0">>,
     <<"1","8","0","0","-","0","1","-","0","1">>}
AddressInputs ==
    {Undefined, Empty, <<" ">>, Addr1, <<" ">> \o Addr2 \o <<" ">>,
     Str0x \o Rep("a", 39), Str0x \o Rep("a", 41), Str0x \o Rep("g", 40),
     Rep("a", 40), Str0x \o Rep("A", 40), Str0x \o <<"A">> \o Rep("b", 39),
     <<"0", "X">> \o Rep("a", 40)}
ValidatorInputs ==
    [username |-> UsernameInputs, password |-> PasswordInputs,
     email |-> EmailInputs, phone |-> PhoneInputs, dob |-> DobInputs]

InitValidators ==
    /\ variant \in Variants
    /\ \/ /\ step = "register"
          /\ \E field \in Fields, value \in UNION {ValidatorInputs[f] : f \in Fields} :
                /\ value \in ValidatorInputs[field]
                /\ form = [EmptyForm EXCEPT ![field] = value]
          /\ manualAddress = Empty
       \/ /\ step = "connect"
          /\ form = EmptyForm
          /\ manualAddress \in AddressInputs
    /\ hasEthereum = FALSE
    /\ connectedAddress = Empty
    /\ session = NoSession
    /\ partner = None
    /\ users = << >>
    /\ msgs = << >>
    /\ balances = NoBalances
    /\ loadingBalances = FALSE
    /\ storage = NoAuth
    /\ pending = {}
    /\ fetches = {}
    /\ listeners = {}
    /\ lastOp = "Init"
    /\ notice = None
    /\ calls = << >>
    /\ switched = << >>
    /\ answer = None
    /\ held = NoCaller
    /\ renders = NoRenders

\* validator(value) of a field: what it returned is kept in notice
Validated(name, result) ==
    /\ Op(name, result)
    /\ UNCHANGED << variant, hasEthereum, step, connectedAddress, manualAddress,
                    form, session, partner, users, msgs, balances,
                    loadingBalances, storage, pending, fetches, listeners >>

usernameValidated ==
    step = "register" /\ Validated("validators.username", validators_username(form.username))
passwordValidated ==
    step = "register" /\ Validated("validators.password", validators_password(form.password))
emailValidated ==
    step = "register" /\ Validated("validators.email", validators_email(form.email))
phoneValidated ==
    step = "register" /\ Validated("validators.phone", validators_phone(form.phone))
dobValidated ==
    step = "register" /\ Validated("validators.dob", validators_dob(form.dob))
walletAddressValidated ==
    step = "connect"
    /\ Validated("validators.walletAddress", validators_walletAddress(manualAddress))

NextValidators ==
    \/ usernameValidated
    \/ passwordValidated
    \/ emailValidated
    \/ phoneValidated
    \/ dobValidated
    \/ walletAddressValidated

SpecValidators == InitValidators /\ [][NextValidators]_vars

(***************************************************************************)
(* AuthStorage as an object.  The page is loaded with some value under the *)
(* storage key, and setAuth, getAuth and clearAuth are called in any order *)
(* with page reloads in between.                                           *)
(***************************************************************************)
StorageInputs ==
    {\* { address: addr, ts: Date.now() }
     Object(ManualAuth(Addr1, "1"), {"address", "ts"}),
     \* { address, signature: auth.signature, challenge: auth.challenge, ts }
     \* built from the record above
     Object(ManualAuth(Addr1, "1"), {"address", "signature", "challenge", "ts"}),
     Object(AuthRecord(Addr2, "s1", Challenge(Addr2, "1"), "1", None, None),
            {"address", "signature", "challenge", "ts"}),
     \* { ...currentAuth, user: result.user, token: result.token }
     Object(AuthRecord(Addr2, "s1", Challenge(Addr2, "1"), "1", "u1", "t1"), Props),
     Object(AuthRecord(Addr1, None, Undefined, "1", "u1", "t1"),
            {"address", "ts", "user", "token"})}
StoredValues ==
    {NoAuth}
    \cup (IF Durable
          THEN {AuthStorage_setAuth(JSON_stringify(r)) : r \in StorageInputs}
               \cup {Corrupt, Unreadable}
          ELSE {})

InitStorage ==
    /\ variant \in Variants
    /\ \E stored \in StoredValues :
          LET m == Mounted(FALSE, TRUE, stored)
          IN  /\ hasEthereum = m.hasEthereum
              /\ storage = m.storage
              /\ step = m.step
              /\ connectedAddress = m.connectedAddress
              /\ loadingBalances = m.loadingBalances
              /\ pending = m.pending
              /\ fetches = m.fetches
    /\ manualAddress = Empty
    /\ form = EmptyForm
    /\ session = NoSession
    /\ partner = None
    /\ users = << >>
    /\ msgs = << >>
    /\ balances = NoBalances
    /\ listeners = {}
    /\ lastOp = "Init"
    /\ notice = None
    /\ calls = << >>
    /\ switched = << >>
    /\ answer = None
    /\ held = NoCaller
    /\ renders = NoRenders

StorageCall(name, stored, caller) ==
    /\ storage' = stored
    /\ held' = caller
    /\ renders' = NoRenders
    /\ lastOp' = name
    /\ notice' = None
    /\ calls' = << >>
    /\ switched' = << >>
    /\ answer' = None
    /\ UNCHANGED << variant, hasEthereum, step, connectedAddress, manualAddress,
                    form, session, partner, users, msgs, balances,
                    loadingBalances, pending, fetches, listeners >>

\* A: authStorage = auth.  B, C: localStorage.setItem(KEY, JSON.stringify(auth))
\* inside try/catch; when the write throws the stored value stays.
setAuth ==
    \E r \in StorageInputs :
       StorageCall("AuthStorage.setAuth",
                   IF ~ Durable THEN AuthStorage_setAuth(r)
                   ELSE IF storage.kind = "unreadable" THEN storage
                   ELSE AuthStorage_setAuth(JSON_stringify(r)),
                   [arg |-> r, ret |-> NullObject])

ParseFailurePropagated == Object([NoAuth EXCEPT !.kind = "raised"], {})
\* catch (e) { console.error(...); return null; }
ParseFailure == NullObject
\* A: return authStorage.  B, C: stored ? JSON.parse(stored) : null, in try/catch
getAuth ==
    StorageCall("AuthStorage.getAuth", storage,
                [held EXCEPT !.ret =
                    IF storage.kind = "json"
                    THEN (IF Durable THEN JSON_parse(storage) ELSE storage)
                    ELSE IF storage.kind = "absent" THEN NullObject
                    ELSE ParseFailure])

\* A: authStorage = null.  B, C: localStorage.removeItem(KEY), outside any try:
\* when the access throws the call raises and the stored value stays.
clearAuth ==
    StorageCall("AuthStorage.clearAuth",
                IF storage.kind = "unreadable" THEN storage
                ELSE AuthStorage_clearAuth,
                NoCaller)

NextStorage ==
    \/ setAuth
    \/ getAuth
    \/ clearAuth
    \/ Reload

SpecStorage == InitStorage /\ [][NextStorage]_vars

(***************************************************************************)
(* Properties                                                              *)
(***************************************************************************)
\* the stored record holds wallet, user and (token-based variant) token
StoredSession(auth) ==
    /\ HasAddress(auth)
    /\ auth.user # None
    /\ TokenBased => auth.token # None
SameWallet(a, b) ==
    /\ a.address = b.address
    /\ a.signature = b.signature
    /\ a.challenge = b.challenge
    /\ a.ts = b.ts

\* C1: in every reachable state, step = "chat" implies that the session
\* holds a user.
C1_ChatImpliesSessionUser == step = "chat" => SessionUser # None

\* C2: in every reachable state, the stored record holds a user only if it
\* holds a wallet address.
C2_StoredUserImpliesAddress ==
    AuthStorage_getAuth.user # None => HasAddress(AuthStorage_getAuth)

\* C3: when accountsChanged arrives with a non-empty account list that
\* differs from the connected address while a user is logged in, afterwards
\* the session is null, the stored record holds no user or token, and step
\* is not "chat".
C3_AccountChangeInvalidatesSession ==
    [][(/\ handleAccountsChanged
        /\ lastOp' = "handleAccountsChanged"
        /\ SessionUser # None
        /\ connectedAddress' # connectedAddress)
       => (/\ session' = NoSession
           /\ storage'.user = None
           /\ storage'.token = None
           /\ step' # "chat")]_vars

\* C4: when the startup validation of a stored wallet + user (+ token)
\* record fails or its request is rejected, step ends as "chooseAuth" and the
\* stored record holds no user or token while its address, signature,
\* challenge and ts are unchanged.
C4_FailedValidationStripsStorage ==
    [][(validateResponse /\ step' # "chat")
       => (/\ step' = "chooseAuth"
           /\ storage'.user = None
           /\ storage'.token = None
           /\ SameWallet(storage', storage))]_vars

\* C5 as stated: on startup with a stored wallet + user (+ token) record,
\* step is "chat" with the stored user as session at once, before the
\* validation response.
C5_StartupEntersChatAtOnce ==
    [][(Reload /\ StoredSession(storage'))
       => (step' = "chat" /\ session'.user = storage'.user)]_vars

\* C5 amended: on startup with a stored wallet + user (+ token) record, step
\* stays "connect" with a null session, connectedAddress is the stored
\* address and the validation request for the stored record is under way;
\* a validation response moves step to "chat" only with the user of the
\* record read at startup as session.
C5_StartupWaitsForValidation ==
    [][/\ (Reload /\ StoredSession(storage'))
          => (/\ step' = "connect"
              /\ session' = NoSession
              /\ connectedAddress' = storage'.address
              /\ \E r \in pending' : r.kind = "validate" /\ r.saved = storage')
       /\ (validateResponse /\ step' = "chat")
          => \E r \in pending \ pending' :
                /\ r.kind = "validate"
                /\ StoredSession(r.saved)
                /\ session'.user = r.saved.user]_vars
C5_Startup ==
    /\ lastOp = "Reload"
    /\ StoredSession(storage)
    /\ step = "connect"
    /\ session = NoSession
    /\ \E r \in pending : r.kind = "validate"

\* C6: on startup, with no stored record or one without an address, step
\* stays "connect" and no validation request is made; with a stored record
\* that has an address and no user, step becomes "chooseAuth",
\* connectedAddress is the stored address and no validation request is made.
C6_StartupWithoutUser ==
    [][Reload =>
         /\ ~ HasAddress(storage')
            => (step' = "connect" /\ \A r \in pending' : r.kind # "validate")
         /\ (HasAddress(storage') /\ storage'.user = None)
            => (/\ step' = "chooseAuth"
                /\ connectedAddress' = storage'.address
                /\ \A r \in pending' : r.kind # "validate")]_vars
C6_WalletOnlyStartup ==
    /\ lastOp = "Reload"
    /\ HasAddress(storage)
    /\ storage.user = None
    /\ step = "chooseAuth"
    /\ connectedAddress = storage.address

C8_SwitchAccount ==
    [][switchAccount =>
         /\ step' = "chooseAuth"
         /\ session' = NoSession
         /\ partner' = None
         /\ users' = << >>
         /\ msgs' = << >>
         /\ form' = EmptyForm
         /\ storage'.user = None
         /\ storage'.token = None
         /\ storage'.address = storage.address]_vars
C8_SwitchedAccount ==
    /\ lastOp = "switchAccount"
    /\ step = "chooseAuth"
    /\ HasAddress(storage)
    /\ storage.user = None

\* C9: handleLogout and handleDisconnect end in step "connect" with nothing
\* stored, a null session, no partner, empty users, messages and form, empty
\* connectedAddress and manualAddress, and null balances.
C9_LogoutClearsEverything ==
    [][(handleLogout \/ handleDisconnect) =>
         /\ step' = "connect"
         /\ ~ Truthy(storage')
         /\ storage' = NoAuth
         /\ session' = NoSession
         /\ partner' = None
         /\ users' = << >>
         /\ msgs' = << >>
         /\ form' = EmptyForm
         /\ connectedAddress' = Empty
         /\ manualAddress' = Empty
         /\ balances' = NoBalances]_vars
C9_LoggedOut ==
    /\ lastOp \in {"handleLogout", "handleDisconnect"}
    /\ step = "connect"
    /\ storage = NoAuth
    /\ session = NoSession
    /\ balances = NoBalances

\* C10: step goes from "login" to "chat" only on a login response that
\* carries a user and (token-based variant) a token, and the stored record
\* afterwards is the one before with user and token added: address,
\* signature, challenge and ts are unchanged.
C10_LoginEntersChat ==
    [][(loginResponse /\ step = "login" /\ step' = "chat") =>
         /\ session'.user # None
         /\ TokenBased => session'.token # None
         /\ storage'.user = session'.user
         /\ storage'.token = session'.token
         /\ SameWallet(storage', storage)]_vars

\* C11: a login response that is not accepted (success false, or the request
\* rejected) shows the message of the response or a generic failure text and
\* leaves step, the form, the session and the stored record as they were: a
\* response that finds step "login" and a null session leaves them so.
C11_RefusedLoginChangesNothing ==
    [][(loginResponse /\ step' # "chat" /\ step = "login")
       => (/\ step' = "login"
           /\ form' = form
           /\ session' = session
           /\ storage' = storage
           /\ notice' \in {"Wrong password", "Invalid credentials",
                          "Login failed. Please try again."})]_vars
C11_LoginRefused ==
    /\ lastOp = "loginResponse"
    /\ notice = "Wrong password"
    /\ step = "login"
    /\ session = NoSession
    /\ form.username # Empty
    /\ form.password # Empty

\* C12: a register response with success true moves step to "login" and
\* leaves every form field the empty string; a response with success false,
\* or a rejected request, leaves step and form as they were and raises a
\* notice.
C12_RegisterResponse ==
    [][registerResponse =>
         IF notice' = "Registration successful! Please login."
         THEN /\ step' = "login"
              /\ \A f \in Fields : form'[f] = Empty
         ELSE /\ step' = step
              /\ form' = form
              /\ notice' \in {"Wrong password", "Registration failed",
                              "Registration failed. Please try again."}]_vars
C12_Registered ==
    /\ lastOp = "registerResponse"
    /\ notice = "Registration successful! Please login."
    /\ step = "login"
    /\ form = EmptyForm

\* C13: whenever the user's choice on the chooseAuth screen moves step to
\* "register" or "login", the form is all-empty in the resulting state.
C13_ChoiceStartsWithEmptyForm ==
    [][(chooseRegister \/ chooseLogin)
       => (step' \in {"register", "login"} /\ form' = EmptyForm)]_vars

\* C14: a backend response that settles when the screen that issued its
\* request is no longer shown (login: "login", register: "register", startup
\* validation: "connect", getUsers and getMessages: "chat") changes neither
\* step, session nor the stored record.
C14_LateResponsesIgnored ==
    [][(\/ loginResponse /\ step # "login"
        \/ registerResponse /\ step # "register"
        \/ validateResponse /\ step # "connect"
        \/ (getUsersResponse \/ getMessagesResponse) /\ step # "chat")
       => UNCHANGED << step, session, storage >>]_vars

\* C15: in the MetaMask connect flow, when switchToBSC() reports failure no
\* signature is requested, the stored record is not written and step stays
\* as it was ("connect").
C15_NoSignatureWithoutSwitch ==
    [][(connectMetaMaskResponse /\ switched' = << FALSE >>)
       => (/\ \A i \in DOMAIN calls' : calls'[i].method # "personal_sign"
           /\ storage' = storage
           /\ step' = step)]_vars

\* C16: in every call of switchToBSC(), a switch request refused with the
\* unknown-chain code is followed by one request to add the chain and, when
\* that succeeds, by exactly one more switch request; true is returned only
\* if a switch request succeeded; a switch request refused with another code
\* is followed by no request to add the chain and false is returned.
C16_SwitchRetriedOnce ==
    switched # << >> =>
        LET switches == {i \in DOMAIN calls :
                            calls[i].method = "wallet_switchEthereumChain"}
            adds == {i \in DOMAIN calls :
                            calls[i].method = "wallet_addEthereumChain"}
        IN  /\ (\E i \in switches : calls[i].code = UnknownChain)
                  => /\ Cardinality(adds) = 1
                     /\ (\A i \in adds : calls[i].code = 0)
                           => Cardinality(switches) = 2
            /\ switched = << TRUE >> => \E i \in switches : calls[i].code = 0
            /\ (switches # {} /\ \A i \in switches : calls[i].code \notin {0, UnknownChain})
                  => (adds = {} /\ switched = << FALSE >>)

\* C17: a chainChanged event that arrives after a MetaMask connect, while a
\* wallet address is connected, starts a balance fetch for the connected
\* address.
C17_ChainChangeRefetches ==
    [][(handleChainChanged /\ connectedAddress # Empty)
       => (/\ \E f \in fetches' : f.addr = connectedAddress
           /\ loadingBalances'
           /\ balances' = NoBalances)]_vars

\* C18 as stated: the manual connect makes no request to the wallet provider
\* and the record it stores has no signature and no challenge.
C18_ManualPathNeverCallsWallet ==
    [][connectManual
       => (/\ calls' = << >>
           /\ storage' # storage
                 => (storage'.signature = None /\ storage'.challenge = Undefined))]_vars

\* C18 amended: the manual connect requests no accounts, no chain switch and
\* no signature itself, the only request it can make being the eth_chainId
\* query of the balance fetch it starts, and the record it stores has no
\* signature and no challenge; a stored record with a signature also holds
\* the challenge that connectMetaMask built for a wallet account.
C18_ManualPathNeverSigns ==
    [][/\ connectManual
          => (/\ \A i \in DOMAIN calls' : calls'[i].method = "eth_chainId"
              /\ storage' # storage
                    => (storage'.signature = None
                        /\ storage'.challenge = Undefined))
       /\ storage'.signature # None
          => (/\ storage'.signature \in Signatures
              /\ \E a \in WalletAccounts, t \in Times :
                     storage'.challenge = Challenge(a, t))]_vars
C18_ManualConnectAsksChainId ==
    /\ lastOp = "connectManual"
    /\ step = "chooseAuth"
    /\ calls = << Call("eth_chainId", Pending) >>
    /\ storage.signature = None
    /\ storage.challenge = Undefined

\* C19: when a balance fetch publishes, the published set has "Error" for
\* exactly the symbols whose lookup was rejected and the fetched value for
\* every other symbol, whatever subset of the lookups failed, and
\* loadingBalances is false; a lookup that settles writes the result of its
\* own symbol only.
C19_FailuresAreIsolated ==
    [][/\ fetchBalancesDone
          => (/\ loadingBalances' = FALSE
              /\ balances'.set
              /\ \E f \in fetches \ fetches' :
                    \A sym \in Symbols :
                       balances'[sym] = IF sym \in f.failed THEN "Error"
                                        ELSE BalanceValue(sym))
       /\ lookupSettled
          => \E f \in fetches \ fetches', g \in fetches' :
                \E sym \in Symbols \ f.settled :
                   /\ g.settled = f.settled \cup {sym}
                   /\ \A other \in Symbols \ {sym} :
                         g.results[other] = f.results[other]]_vars
C19_NativeFailedTokenFetched ==
    /\ lastOp = "fetchBalancesDone"
    /\ balances.set
    /\ balances.BNB = "Error"
    /\ balances.USDT = BalanceValue("USDT")
    /\ loadingBalances = FALSE

\* C20: a handler that starts a balance fetch sets balances to null; the
\* settling of a lookup leaves balances alone; balances becomes non-null
\* only when a fetch all of whose lookups have settled publishes its
\* results (or when the chain query of a fetch that started no lookup is
\* refused); and a published set holds, for every symbol, a fetched value or
\* "Error", never the initial value of a lookup that has not settled.
C20_PublishedAfterAllSettled ==
    [][/\ (fetches' \ fetches # {} /\ ~ getCorrectProvider /\ ~ lookupSettled)
          => (balances' = NoBalances /\ loadingBalances')
       /\ lookupSettled => UNCHANGED balances
       /\ (balances' # balances /\ balances'.set)
          => \E f \in fetches \ fetches' :
                \/ /\ f.stage = "lookups"
                   /\ f.settled = Symbols
                   /\ balances' = BalanceSet(f.results)
                \/ /\ f.stage = "eth_chainId"
                   /\ f.settled = {}
                   /\ balances' = BalanceSet(AllError)
       /\ balances'.set
          => \A sym \in Symbols : balances'[sym] \in {"Error", BalanceValue(sym)}]_vars
C20_PartlySettledUnpublished ==
    /\ lastOp = "lookupSettled"
    /\ balances = NoBalances
    /\ loadingBalances
    /\ \E f \in fetches : f.settled # {} /\ f.settled # Symbols

(***************************************************************************)
(* C21: every fetchBalances call with a non-empty address that is under    *)
(* way is followed by the completion of a call: either the outer catch     *)
(* (a refused eth_chainId) or the end of the try block (after all lookups  *)
(* settled, whatever the chain switch and the lookups answered).  Neither  *)
(* raises; when it has run loadingBalances is false and a balance set is   *)
(* published.  A page reload abandons the call.                            *)
(***************************************************************************)
C21_Completed ==
    /\ \/ lastOp = "fetchBalancesDone"
       \/ /\ lastOp = "getCorrectProvider"
          /\ calls[1].code # 0
    /\ ~ loadingBalances
    /\ balances.set

C21_FetchCompletes ==
    (fetches # {}) ~> (C21_Completed \/ lastOp = "Reload")

\* a call completed after the chain-id query was refused, and another after
\* a lookup failed: the published set holds "Error" and loading is over
C21_CompletedAfterFailure ==
    /\ C21_Completed
    /\ fetches = {}
    /\ balances.BNB = "Error"

(***************************************************************************)
(* C22: in the token-based variant every request of getUsers (the one of   *)
(* the session restore included), getMessages, sendMessage, deleteAllUsers *)
(* and deleteAllMessages carries as bearer credential the token that       *)
(* AuthStorage holds when it is sent, and no credential when AuthStorage   *)
(* holds no token; register and login requests never carry one.            *)
(***************************************************************************)
C22_AuthenticatedCalls ==
    {"validate", "getUsers", "getMessages", "sendMessage", "deleteAllUsers",
     "deleteAllMessages"}

C22_BearerIsStoredToken ==
    [][\A r \in pending' \ pending :
          /\ (TokenBased /\ r.kind \in C22_AuthenticatedCalls) =>
                r.bearer = IF storage'.kind = "json" /\ storage'.token # None
                           THEN storage'.token ELSE None
          /\ r.kind \in {"register", "login"} => r.bearer = None]_vars

\* a message is being sent with the stored token
C22_SentWithToken ==
    /\ TokenBased
    /\ lastOp = "sendMsg"
    /\ \E r \in pending :
          /\ r.kind = "sendMessage"
          /\ r.bearer # None
          /\ r.bearer = storage.token

(***************************************************************************)
(* C23: in the token-based variant an "Invalid or expired token" answer to *)
(* getUsers, getMessages, sendMessage, deleteAllUsers or deleteAllMessages *)
(* forces a logout: AuthStorage cleared, session null, step "connect".     *)
(***************************************************************************)
C23_ExpiredTokenForcesLogout ==
    [][(/\ TokenBased
        /\ answer' = TokenExpired
        /\ lastOp' \in {"getUsersResponse", "getMessagesResponse",
                        "sendMessageResponse", "deleteAllUsersResponse",
                        "deleteAllMessagesResponse"})
       => /\ storage' = AuthStorage_clearAuth
          /\ session' = NoSession
          /\ step' = "connect"]_vars

(***************************************************************************)
(* C24: when a register, login, getUsers, getMessages, sendMessage,        *)
(* deleteAllUsers or deleteAllMessages call fails (its promise is rejected *)
(* or its body is an error object) the handler shows a notice and leaves   *)
(* step, session and AuthStorage as they were.  The expired-token body,    *)
(* for which C23 asks for a logout, is left out.                           *)
(***************************************************************************)
C24_FailureShowsNoticeAndKeepsState ==
    [][(/\ lastOp' \in {"registerResponse", "loginResponse", "getUsersResponse",
                        "getMessagesResponse", "sendMessageResponse",
                        "deleteAllUsersResponse", "deleteAllMessagesResponse"}
        /\ answer' \notin {None, "ok", TokenExpired})
       => /\ notice' # None
          /\ step' = step
          /\ session' = session
          /\ storage' = storage]_vars

(***************************************************************************)
(* C25: a deleteAllUsers request is sent only by the clearAllUsers handler *)
(* whose window.confirm was answered yes, and a deleteAllMessages request  *)
(* only by the continuation of that handler after its deleteAllUsers       *)
(* request; when the confirmation is declined no request is sent and       *)
(* users, msgs, session, AuthStorage and step stay as they were.           *)
(***************************************************************************)
C25_DeleteOnlyAfterConfirm ==
    [][/\ \A r \in pending' \ pending :
             /\ r.kind = "deleteAllUsers" => lastOp' = "clearAllUsers"
             /\ r.kind = "deleteAllMessages" =>
                   /\ lastOp' = "deleteAllUsersResponse"
                   /\ \E q \in pending \ pending' : q.kind = "deleteAllUsers"
       /\ lastOp' = "clearAllUsers_declined" =>
             /\ pending' = pending
             /\ UNCHANGED << users, msgs, session, storage, step >>]_vars

\* the confirmation was declined while a user was logged in
C25_Declined ==
    /\ lastOp = "clearAllUsers_declined"
    /\ SessionUser # None
    /\ step = "chat"
    /\ \A r \in pending : r.kind \notin {"deleteAllUsers", "deleteAllMessages"}

(***************************************************************************)
(* C26: for every string s, validators.username(s) returns null exactly    *)
(* when 3 <= length(trim(s)) <= 20 and s itself matches ^[A-Za-z0-9_]+$.   *)
(***************************************************************************)
C26_UsernameRule ==
    (lastOp = "validators.username" /\ form.username # Undefined)
    => (notice = Null <=>
           /\ Len(Trim(form.username)) >= 3
           /\ Len(Trim(form.username)) <= 20
           /\ IsWord(form.username))

(***************************************************************************)
(* C27: for every string p, validators.password(p) returns null exactly    *)
(* when p has 8 characters or more, a lowercase letter, an uppercase       *)
(* letter, a digit and, in the copies that ask for it (B and C), one of    *)
(* @$!%*?&; otherwise it returns the message of the first rule that fails  *)
(* in the order required, length, lowercase, uppercase, digit, special.    *)
(***************************************************************************)
C27_PasswordRules ==
    LET p == form.password
        rules ==
          << [ok |-> p # Empty, msg |-> "Password is required"],
             [ok |-> Len(p) >= 8, msg |-> "Password must be at least 8 characters"],
             [ok |-> \E i \in 1..Len(p) : p[i] \in Lower,
              msg |-> "Password must contain at least one lowercase letter"],
             [ok |-> \E i \in 1..Len(p) : p[i] \in Upper,
              msg |-> "Password must contain at least one uppercase letter"],
             [ok |-> \E i \in 1..Len(p) : p[i] \in Digit,
              msg |-> "Password must contain at least one number"],
             [ok |-> variant = "A" \/ \E i \in 1..Len(p) : p[i] \in Special,
              msg |-> "Password must contain at least one special character (@$!%*?&)"] >>
        failing == {k \in 1..Len(rules) : ~ rules[k].ok}
    IN  (lastOp = "validators.password" /\ p # Undefined)
        => /\ notice = Null <=> failing = {}
           /\ failing # {} =>
                 notice = rules[CHOOSE k \in failing : \A j \in failing : k <= j].msg

\* eight digits fail the lowercase, the uppercase and the special rule: the
\* message is that of the lowercase rule
C27_FirstFailingRuleReported ==
    /\ lastOp = "validators.password"
    /\ form.password = <<"1","2","3","4","5","6","7","8">>
    /\ notice = "Password must contain at least one lowercase letter"

(***************************************************************************)
(* C28: for every string a, validators.walletAddress(a) returns null       *)
(* exactly when trim(a) is "0x" followed by 40 hexadecimal digits, in any  *)
(* letter case.                                                            *)
(***************************************************************************)
C28_WalletAddressRule ==
    LET a == Trim(manualAddress)
    IN  (lastOp = "validators.walletAddress" /\ manualAddress # Undefined)
        => (notice = Null <=>
               /\ Len(a) = 42
               /\ a[1] = "0" /\ a[2] = "x"
               /\ \A i \in 3..42 : a[i] \in HexDigit)

(***************************************************************************)
(* C29: every validator, applied to any string or to undefined, returns    *)
(* null or an error message and never raises.                              *)
(***************************************************************************)
C29_ValidatorsNeverRaise ==
    lastOp \in {"validators.username", "validators.password", "validators.email",
                "validators.phone", "validators.dob", "validators.walletAddress"}
    => notice # Raised

(***************************************************************************)
(* C30: validators.dob returns null for a present (non-blank) value only   *)
(* if the value parses as a date that lies between 120 and 13 years before *)
(* today; a present value that does not parse, or that gives an age below  *)
(* 13 or above 120, gets an error message.                                 *)
(***************************************************************************)
C30_DobRule ==
    LET value == form.dob
        date == ParseDate(value)
        oldEnough == Ord(date) <= Ord([y |-> Today.y - 13, m |-> Today.m, d |-> Today.d])
        notTooOld == Ord(date) >= Ord([y |-> Today.y - 120, m |-> Today.m, d |-> Today.d])
    IN  (lastOp = "validators.dob" /\ value # Undefined /\ Trim(value) # Empty)
        => (notice = Null <=> (date.ok /\ oldEnough /\ notTooOld))

(***************************************************************************)
(* Rendering.  React calls App again after every state change.  The        *)
(* Create Profile button of the register screen is rendered with           *)
(* disabled={!isFormValid()}, so isFormValid runs inside every render pass  *)
(* of that screen.  The first copy has no isFormValid.                      *)
(***************************************************************************)
\* B: every validator returns null and every value is non-blank.
\* C: no field has an error (every field of the form has a validator).
isFormValid ==
    IF TokenBased THEN AllValidatorsPass
    ELSE AllValidatorsPass /\ \A f \in Fields : Trim(form[f]) # Empty

\* C ends isFormValid with setFormErrors(errors), errors being a new object
isFormValidSetsState == TokenBased

InitRender ==
    /\ variant \in {"B", "C"}
    /\ \E r \in {o \in StorageInputs : o.user = None}, eth \in BOOLEAN :
          LET m == Mounted(eth, TRUE, AuthStorage_setAuth(JSON_stringify(r)))
          IN  /\ hasEthereum = m.hasEthereum
              /\ storage = m.storage
              /\ step = m.step
              /\ connectedAddress = m.connectedAddress
              /\ loadingBalances = m.loadingBalances
              /\ pending = m.pending
              /\ fetches = m.fetches
    /\ manualAddress = Empty
    /\ form = EmptyForm
    /\ session = NoSession
    /\ partner = None
    /\ users = << >>
    /\ msgs = << >>
    /\ balances = NoBalances
    /\ listeners = {}
    /\ lastOp = "Init"
    /\ notice = None
    /\ calls = << >>
    /\ switched = << >>
    /\ answer = None
    /\ held = NoCaller
    /\ renders = NoRenders

\* one render pass of App
render ==
    /\ renders.due
    /\ renders.passes < MaxRenders
    /\ LET button == step = "register"
           changed == button /\ isFormValidSetsState
       IN  renders' = [passes |-> renders.passes + 1,
                       due |-> changed,
                       formErrors |-> IF changed THEN renders.passes + 1
                                      ELSE renders.formErrors,
                       disabled |-> button /\ ~ isFormValid]
    /\ lastOp' = "render"
    /\ UNCHANGED << variant, hasEthereum, step, connectedAddress, manualAddress,
                    form, session, partner, users, msgs, balances,
                    loadingBalances, storage, pending, fetches, listeners,
                    notice, calls, switched, answer, held >>

NextRender ==
    \/ chooseRegister
    \/ chooseLogin
    \/ goBack
    \/ handleChange
    \/ render

SpecRender == InitRender /\ [][NextRender]_vars

(***************************************************************************)
(* C31: AuthStorage.clearAuth() is idempotent: a second clearAuth() right  *)
(* after a first leaves what is stored as the first left it, and           *)
(* getAuth() after clearAuth() returns null, whatever was stored before.   *)
(***************************************************************************)
C31_ClearIsIdempotent ==
    [][lastOp = "AuthStorage.clearAuth"
       => /\ lastOp' = "AuthStorage.clearAuth" => storage' = storage
          /\ lastOp' = "AuthStorage.getAuth" => held'.ret = NullObject]_vars

\* a page that was loaded from a stored record, after clearAuth() and getAuth()
C31_ClearedThenRead ==
    /\ lastOp = "AuthStorage.getAuth"
    /\ connectedAddress # Empty
    /\ storage = AuthStorage_clearAuth
    /\ held.ret = NullObject

\* every property reads the same from both objects
ReadsEqual(a, b) == \A p \in Props : a[p] = b[p]
\* both are null, or both are objects with the same own properties and values
DeepEqual(a, b) == a.kind = b.kind /\ a.own = b.own /\ ReadsEqual(a, b)
\* getAuth() is called right after setAuth(r), or after a page reload that
\* followed setAuth(r) on a durable store
ReadAfterSet ==
    /\ lastOp' = "AuthStorage.getAuth"
    /\ \/ lastOp = "AuthStorage.setAuth"
       \/ lastOp = "Reload" /\ Durable /\ held.arg # NullObject

(***************************************************************************)
(* C32, as stated: setAuth(r) followed by getAuth() returns a value        *)
(* deep-equal to r, on a durable store also across a page reload.          *)
(***************************************************************************)
C32_RoundTripDeepEqual ==
    [][ReadAfterSet => DeepEqual(held.arg, held'.ret)]_vars

(***************************************************************************)
(* C32, amended: when the store can be written, setAuth(r) followed by     *)
(* getAuth() returns an object from which every property reads as it does  *)
(* from r, on a durable store also across a page reload; the in-memory     *)
(* store returns r itself.                                                 *)
(***************************************************************************)
C32_RoundTripReadsEqual ==
    [][ReadAfterSet /\ storage.kind # "unreadable"
       => /\ held'.ret.kind = "json"
          /\ ReadsEqual(held.arg, held'.ret)
          /\ ~ Durable => DeepEqual(held.arg, held'.ret)]_vars

\* a record with properties that hold undefined, read back from a durable store
C32_UndefinedPropertiesDropped ==
    /\ lastOp = "AuthStorage.getAuth"
    /\ Durable
    /\ held.arg.own = {"address", "signature", "challenge", "ts"}
    /\ held.ret.own = {"address", "ts"}
    /\ ReadsEqual(held.arg, held.ret)

(***************************************************************************)
(* C33: on a durable store whose value is corrupt (JSON.parse rejects it)  *)
(* or unreadable (the access throws), getAuth() returns null instead of     *)
(* raising, and a page load ends as it does with nothing stored: step      *)
(* "connect", no address, no session, no request and no balance fetch.     *)
(***************************************************************************)
C33_CorruptReadsAsAbsent ==
    [][Durable /\ storage.kind \in {"corrupt", "unreadable"}
       => /\ lastOp' = "AuthStorage.getAuth" => held'.ret = NullObject
          /\ lastOp' = "Reload"
             => \E conn \in BOOLEAN :
                   LET m == Mounted(hasEthereum, conn, NoAuth)
                   IN  /\ step' = "connect"
                       /\ step' = m.step
                       /\ connectedAddress' = m.connectedAddress
                       /\ loadingBalances' = m.loadingBalances
                       /\ pending' = m.pending
                       /\ fetches' = m.fetches
                       /\ calls' = m.calls
                       /\ session' = NoSession
                       /\ balances' = NoBalances]_vars

\* getAuth() has answered null on a store that holds an unparsable text
C33_CorruptRead ==
    /\ lastOp = "AuthStorage.getAuth"
    /\ storage = Corrupt
    /\ held.ret = NullObject
    /\ step = "connect"

(***************************************************************************)
(* C34: in every state thread holds, in the order of the loaded list,      *)
(* exactly the loaded messages exchanged between the logged-in user and    *)
(* the selected partner, also when the loaded list is the one of a         *)
(* partner selected earlier.                                               *)
(***************************************************************************)
C34_ThreadIsFilteredList ==
    LET idx == {i \in 1..Len(msgs) :
                   {msgs[i].sender, msgs[i].receiver} = {SessionUser, partner}}
        nth(k) == CHOOSE i \in idx : Cardinality({j \in idx : j <= i}) = k
    IN  /\ Len(thread) = Cardinality(idx)
        /\ \A k \in 1..Len(thread) : thread[k] = msgs[nth(k)]

\* the messages of two conversations are in turn loaded and shown
C34_ThreadShown ==
    /\ lastOp = "getMessagesResponse"
    /\ partner = "u3"
    /\ Len(msgs) = 3
    /\ Len(thread) = 3

\* the list that arrived belongs to another partner than the selected one
C34_ListOfOtherPartner ==
    /\ lastOp = "getMessagesResponse"
    /\ partner = "u3"
    /\ Len(msgs) = 2
    /\ thread = << >>

(***************************************************************************)
(* C35: whenever step is "chooseAuth", "register", "login" or "chat" a     *)
(* wallet address is connected and the stored record holds an address,     *)
(* also after a login or startup-validation response that arrives after a  *)
(* disconnect.                                                             *)
(***************************************************************************)
C35_AuthStepsHaveWallet ==
    step \in {"chooseAuth", "register", "login", "chat"}
    => /\ connectedAddress # Empty
       /\ HasAddress(AuthStorage_getAuth)

(***************************************************************************)
(* C36: once the stored record is gone (logout, disconnect) it stays gone  *)
(* until a wallet connect succeeds: no login response, startup validation  *)
(* or accountsChanged event writes a record into the empty store.          *)
(***************************************************************************)
C36_ClearedUntilConnect ==
    [][~ Truthy(AuthStorage_getAuth) /\ Truthy(AuthStorage_getAuth)'
       => lastOp' \in {"connectManual", "connectMetaMaskResponse"}]_vars

(***************************************************************************)
(* C37: balances, when not null, are those of the connected address: a     *)
(* fetch that stores its results was started for the address connected at  *)
(* that moment, balances are null while no address is connected (after     *)
(* logout), and loadingBalances is true as long as a fetch is in flight.   *)
(***************************************************************************)
C37_BalancesFollowAddress ==
    [][/\ balances'.set /\ balances' # balances
          => \A f \in fetches \ fetches' : f.addr = connectedAddress'
       /\ balances'.set => connectedAddress' # Empty
       /\ fetches' # {} => loadingBalances']_vars

\* requests of the api object (not the wallet's) that have not settled
BackendRequests == {r \in pending : r.kind # "connectMetaMask"}

(***************************************************************************)
(* C38: whenever no backend request is in flight, the session is set       *)
(* exactly when the stored record holds a user (and, with tokens, a        *)
(* token), and both name the same user.                                    *)
(***************************************************************************)
C38_SessionMatchesStorage ==
    LET auth == AuthStorage_getAuth
        storedUser == auth.user # None /\ (TokenBased => auth.token # None)
    IN  BackendRequests = {}
        => /\ SessionTruthy <=> storedUser
           /\ SessionTruthy => SessionUser = auth.user

(***************************************************************************)
(* C39: a render pass does not change component state: after it no further *)
(* render is due and formErrors is the object it was before, so rendering  *)
(* the register screen settles.                                            *)
(***************************************************************************)
C39_RenderSettles ==
    [][lastOp' = "render"
       => /\ ~ renders'.due
          /\ renders'.formErrors = renders.formErrors]_vars

====
